---- MODULE Spec2Model ----
(***************************************************************************)
(* Build registry and build-state tracking of chimi (chimi/build.py,       *)
(* chimi/core.py, chimi/command.py).                                       *)
(*                                                                         *)
(* Strings that the code joins with '-' (architecture and build names) are *)
(* sequences of hyphen-free tokens, so that '-'.join is concatenation and  *)
(* two different (architecture, components) pairs can yield the same name. *)
(* Python dicts are sets of <<key, value>> pairs.                          *)
(***************************************************************************)
EXTENDS Integers, Sequences, FiniteSets, TLC

VARIABLES
    noact,      \* chimi.settings.noact
    builds,     \* Package.builds, per package: list of Build objects (ids)
    objs,       \* the Build objects constructed so far, by id
    messages,   \* Build.messages, by Build id
    save_flag,  \* PackageSet.save_flag, while the attribute exists
    attrs,      \* which of `mutex' and `save_flag' are in PackageSet.__dict__,
                \* and which of the packages' `_repository' and `_branches'
                \* are in Package.__dict__
    lock,       \* the thread that holds the PackageSet's threading.Lock
    pc,         \* where each thread is in PackageSet.save()
    dirs,       \* build directories that exist on disk
    manifest,   \* what chimi.yaml holds, and how often it was written
    clock,      \* time.time(), one tick per BuildMessage
    ops,        \* number of operations performed so far
    running,    \* the process has not exited
    last,       \* the operation performed last, with its arguments and outcome
    resolved    \* the BuildConfig construction performed last: inputs and result

vars == <<noact, builds, objs, messages, save_flag, attrs, lock, pc, dirs,
          manifest, clock, ops, running, last, resolved>>

----------------------------------------------------------------------------
\* Bounds of the model.

\* Operations performed in one behaviour of Spec.
MaxOps == 2

\* Operations performed in one behaviour of SpecLog.
MaxLogOps == 3

\* Operations performed in one behaviour of SpecBuild.
MaxBuildOps == 3

\* The number of operations of a behaviour of SpecPurge.
MaxPurgeOps == 3

\* The number of operations of a behaviour of SpecFind.
MaxFindOps == 3

\* The number of operations of a behaviour of SpecSave.
MaxSaveOps == 3

\* Threads that call PackageSet.save() on one store, in SpecThreads.
MaxThreads == 2

\* Options in the host's defaults, in SpecConfig.
MaxRules == 2

\* Tokens in the option string and entries of a component list, in SpecConfig.
MaxTokens == 2

----------------------------------------------------------------------------
\* BuildStatus values.

Unconfigured == 0
Configure == 1
ConfigureFailed == 2
Configured == 3
Compile == 4
CompileFailed == 5
Complete == 6
PreexistingBuild == 7
InterruptedByUser == 8

Statuses == Unconfigured .. InterruptedByUser

\* The value find_build returns when nothing matches (Build ids start at 1).
NoBuild == 0

None == "None"

default_message(status) ==
    CASE status = Unconfigured -> "build started."
      [] status = Configure -> "configuring... "
      [] status = ConfigureFailed -> "configuration failed."
      [] status = Configured -> "configuration complete."
      [] status = Compile -> "compiling... "
      [] status = CompileFailed -> "compilation failed."
      [] status = Complete -> "build completed."
      [] status = PreexistingBuild -> "recorded preexisting build."
      [] status = InterruptedByUser -> "build aborted."

failure(status) ==
    status = ConfigureFailed \/ status = CompileFailed \/ status = InterruptedByUser

BuildMessage(t, status, message) ==
    [status |-> status, message |-> message, time |-> t]

----------------------------------------------------------------------------
\* Packages, architectures and build configurations.

Pkgs == {"charm", "changa"}

\* Package._repository and Package._branches, the fields that hold the git
\* repository handle and the list of local branches once they were looked up.
Fields(pkg) ==
    IF pkg = "charm" THEN {"charm._repository", "charm._branches"}
    ELSE {"changa._repository", "changa._branches"}

PackageFields == UNION {Fields(p) : p \in Pkgs}

DefinitionName(pkg) == IF pkg = "charm" THEN "Charm++" ELSE "ChaNGa"

\* Package.branches and Package.branch: the repository's local branches and
\* the branch checked out.
Branches(pkg) == {"master"}

CurrentBranch(pkg) == "master"

\* chimi.config.get_architecture(): '-'.join([base_arch, osname, machname]).
get_architecture == <<"net", "linux", "x86_64">>

\* BuildConfig.architecture is either a name or a CharmArchitecture.
ArchStr(name) == [name |-> name, kind |-> "str"]

ArchObj(name) == [name |-> name, kind |-> "CharmArchitecture"]

\* The order of the strings that list.sort() compares.
ComponentRank(c) ==
    CASE c = "-O3" -> 1 [] c = "-g" -> 2 [] c = "cuda" -> 3 [] c = "icc" -> 4
      [] c = "smp" -> 5 [] c = "xlc" -> 6 [] OTHER -> 7

RECURSIVE Insert(_, _)
Insert(x, seq) ==
    IF seq = <<>> THEN <<x>>
    ELSE IF ComponentRank(x) <= ComponentRank(Head(seq)) THEN <<x>> \o seq
    ELSE <<Head(seq)>> \o Insert(x, Tail(seq))

RECURSIVE Sorted(_)
Sorted(seq) == IF seq = <<>> THEN <<>> ELSE Insert(Head(seq), Sorted(Tail(seq)))

\* list(set(seq)): every element once.
RECURSIVE Dedup(_)
Dedup(seq) ==
    IF seq = <<>> THEN <<>>
    ELSE IF \E i \in 2 .. Len(seq) : seq[i] = Head(seq) THEN Dedup(Tail(seq))
    ELSE <<Head(seq)>> \o Dedup(Tail(seq))

BuildConfig_unsorted(arch, components, features, settings, extras, branch, pkg) ==
    [components |-> components,
     features |-> features,
     settings |-> settings,
     extras |-> extras,
     branch |-> IF branch # None THEN branch ELSE CurrentBranch(pkg),
     architecture |-> arch,
     package |-> pkg]

BuildConfig(arch, components, features, settings, extras, branch, pkg) ==
    [components |-> Sorted(components),
     features |-> features,
     settings |-> settings,
     extras |-> Sorted(Dedup(extras)),
     branch |-> IF branch # None THEN branch ELSE CurrentBranch(pkg),
     architecture |-> arch,
     package |-> pkg]

ConfigEq(a, b) ==
    /\ a.architecture = b.architecture
    /\ a.components = b.components
    /\ a.features = b.features
    /\ a.settings = b.settings
    /\ a.extras = b.extras
    /\ a.branch = b.branch
    /\ DefinitionName(a.package) = DefinitionName(b.package)

CharmDefinition_get_build_name(config) ==
    config.architecture.name \o Sorted(config.components)

ChaNGaDefinition_get_build_name(config) ==
    CharmDefinition_get_build_name(config) \o <<"+", config.branch>>

get_build_name(pkg, config) ==
    IF pkg = "changa" THEN ChaNGaDefinition_get_build_name(config)
    ELSE CharmDefinition_get_build_name(config)

get_build_directory(pkg, name) ==
    IF pkg = "changa" THEN <<"changa", "builds", name>> ELSE <<"charm", name>>

\* The names of the `configure' options of each package (--enable-*, --with-*).
get_configure_options(pkg) == IF pkg = "changa" THEN {"bigfiles"} ELSE {}

\* The configurations the operations are called with.
ArchChoices == {ArchStr(get_architecture), ArchObj(get_architecture)}

ComponentChoices == {<<>>, <<"smp">>}

FeatureChoices == {{}, {<<"bigfiles", TRUE>>}}

Configs(pkg) ==
    {BuildConfig(ArchStr(get_architecture), c, f, {}, <<>>, br, pkg) :
        c \in ComponentChoices, f \in FeatureChoices, br \in Branches(pkg)}
    \cup {BuildConfig(a, <<>>, {}, {}, <<>>, br, pkg) :
             a \in ArchChoices, br \in Branches(pkg)}

\* The configurations the build drivers are called with.
DriverConfigs(pkg) ==
    {BuildConfig(a, <<>>, {}, {}, <<>>, br, pkg) :
        a \in ArchChoices, br \in Branches(pkg)}

\* Placeholder where an operation takes no configuration.
NoConfig == BuildConfig(ArchStr(<<>>), <<>>, {}, {}, <<>>, "none", "none")

----------------------------------------------------------------------------
\* Architectures, option strings and host defaults: BuildConfig.create and
\* HostBuildConfig.apply.

\* CharmDefinition.Architectures as load_architectures fills it: `common', the
\* base architectures `net' and `mpi' and one build architecture of each, with
\* the options, compilers and Fortran compilers found in each one's own
\* directory.  <<>> stands for no parent.
ArchitectureNames ==
    {<<"common">>, <<"net">>, <<"mpi">>, <<"net", "linux", "x86_64">>,
     <<"mpi", "linux", "x86_64">>}

CharmArchitecture(parent, options, compilers, is_base) ==
    [parent |-> parent, options |-> options, compilers |-> compilers,
     is_base |-> is_base, fortran_compilers |-> <<>>]

Architectures(name) ==
    IF name = <<"common">> THEN CharmArchitecture(<<>>, <<>>, <<"icc">>, TRUE)
    ELSE IF name = <<"net">> THEN CharmArchitecture(<<"common">>, <<>>, <<>>, TRUE)
    ELSE IF name = <<"mpi">> THEN CharmArchitecture(<<"common">>, <<>>, <<>>, TRUE)
    ELSE IF name = <<"mpi", "linux", "x86_64">>
    THEN CharmArchitecture(<<"mpi">>, <<>>, <<>>, FALSE)
    ELSE CharmArchitecture(<<"net">>, <<"smp">>, <<>>, FALSE)

\* os.uname() of the hosts of the model: osname and machname.
Unames == {<<"linux", "x86_64">>, <<"darwin", "x86_64">>}

\* chimi.config.get_architecture(base_arch) on a host with that uname.
get_architecture_on(base_arch, uname) == <<base_arch>> \o uname

\* The architecture, were a base architecture name not completed.
resolve_architecture_verbatim(arch, uname) ==
    [name |-> IF arch = <<>> THEN get_architecture_on("net", uname) ELSE arch,
     err |-> "none", qualifier |-> None]

\* BuildConfig.create, the choice of the architecture: arch is the name given,
\* <<>> for None or the empty string.
resolve_architecture(arch, uname) ==
    LET chose_architecture == arch = <<>>
        completed_architecture ==
            arch # <<>> /\ arch \in ArchitectureNames /\ Architectures(arch).is_base
        arch_name == IF chose_architecture THEN get_architecture_on("net", uname)
                     ELSE IF completed_architecture
                     THEN get_architecture_on(arch[1], uname)
                     ELSE arch
    IN IF arch_name \notin ArchitectureNames
       THEN [name |-> arch_name, err |-> "InvalidArchitectureError",
             qualifier |-> IF chose_architecture THEN "Auto-selected"
                           ELSE IF completed_architecture THEN "Auto-completed"
                           ELSE None]
       ELSE [name |-> arch_name, err |-> "none", qualifier |-> None]

RECURSIVE merge_property_with_inherited(_, _)
merge_property_with_inherited(name, propname) ==
    IF name = <<>> THEN <<>>
    ELSE Architectures(name)[propname]
            \o merge_property_with_inherited(Architectures(name).parent, propname)

all_options(name) ==
    merge_property_with_inherited(name, "options")
        \o merge_property_with_inherited(name, "compilers")
        \o merge_property_with_inherited(name, "fortran_compilers")

\* x in seq
Member(x, seq) == \E i \in 1 .. Len(seq) : seq[i] = x

\* dict[key] = value on a dict held as a set of <<key, value>> pairs.
SetItem(dict, key, value) == {kv \in dict : kv[1] # key} \cup {<<key, value>>}

\* One token of the option string, as the list of its parts: `name' or
\* `-name'.
Token(name, value) == IF value THEN <<name>> ELSE <<"-", name>>

\* The token `name=value' or `-name=value'.
TokenAssigned(name, negated) ==
    IF negated THEN <<"-", name, "=", "value">> ELSE <<name, "=", "value">>

NoParse ==
    [components |-> <<>>, features |-> {}, settings |-> {}, err |-> "none",
     negate_components |-> <<>>, negate_features |-> <<>>, option |-> "none",
     raw_option |-> <<>>]

\* InvalidBuildOptionError(package, name, opt): raw_option is None (<<>>) when
\* the token is the name.
InvalidBuildOptionError(acc, name, opt) ==
    [acc EXCEPT !.err = "InvalidBuildOptionError", !.option = name,
                !.raw_option = IF opt # <<name>> THEN opt ELSE <<>>]

\* The body of the loop of BuildConfig.create over the tokens, once name and
\* value are known.  The configure options of the model are --enable-*
\* options that are off by default.
parse_named(pkg, arch_name, opt, name, value, acc, ignore_unknown_options) ==
    IF Member(name, all_options(arch_name))
    THEN IF value = FALSE
         THEN [acc EXCEPT !.negate_components = Append(@, name)]
         ELSE [acc EXCEPT !.components = Append(@, name)]
    ELSE IF name \in get_configure_options(pkg)
    THEN IF value = FALSE
         THEN [acc EXCEPT !.negate_features = Append(@, name)]
         ELSE [acc EXCEPT !.features = SetItem(@, name, value)]
    ELSE IF ignore_unknown_options THEN acc
    ELSE InvalidBuildOptionError(acc, name, opt)

\* The body of the loop from its start: name and value are split at `=', a
\* leading `-' makes the value False and is asserted not to come with `='.
parse_option(pkg, arch_name, opt, acc, ignore_unknown_options) ==
    IF opt[1] = "-" /\ Member("=", opt)
    THEN [acc EXCEPT !.err = "AssertionError"]
    ELSE IF opt[1] = "-"
    THEN parse_named(pkg, arch_name, opt, opt[2], FALSE, acc, ignore_unknown_options)
    ELSE IF Member("=", opt)
    THEN parse_named(pkg, arch_name, opt, opt[1], opt[3], acc, ignore_unknown_options)
    ELSE parse_named(pkg, arch_name, opt, opt[1], TRUE, acc, ignore_unknown_options)

RECURSIVE parse_options(_, _, _, _, _)
parse_options(pkg, arch_name, opts, acc, ignore_unknown_options) ==
    IF opts = <<>> \/ acc.err # "none" THEN acc
    ELSE parse_options(pkg, arch_name, Tail(opts),
                       parse_option(pkg, arch_name, Head(opts), acc,
                                    ignore_unknown_options),
                       ignore_unknown_options)

\* A HostBuildOption.
HostBuildOption(name, enable_by_default, prerequisite_components, apply_settings, apply_extras) ==
    [name |-> name, enable_by_default |-> enable_by_default,
     prerequisite_components |-> prerequisite_components,
     apply_settings |-> apply_settings, apply_extras |-> apply_extras]

\* list(set(prerequisite_components).difference(set(components)))
difference(prerequisite_components, components) ==
    Sorted(Dedup(SelectSeq(prerequisite_components,
                           LAMBDA c : ~Member(c, components))))

RECURSIVE apply_settings(_, _)
apply_settings(settings, todo) ==
    IF todo = {} THEN settings
    ELSE apply_settings(SetItem(settings, (CHOOSE kv \in todo : TRUE)[1],
                                (CHOOSE kv \in todo : TRUE)[2]),
                        todo \ {CHOOSE kv \in todo : TRUE})

\* HostBuildConfig.apply, `if optname in build_config.components': the
\* prerequisites, settings and extras of the option are added.
apply_enabled(opt, build_config) ==
    IF Member(opt.name, build_config.components)
    THEN [build_config EXCEPT
            !.components = @ \o difference(opt.prerequisite_components, @),
            !.settings = apply_settings(@, opt.apply_settings),
            !.extras = @ \o opt.apply_extras]
    ELSE build_config

\* HostBuildConfig.apply, the body of the loop over the host's options.
apply_option(opt, build_config, negated_components) ==
    IF /\ Member(opt.name, all_options(build_config.architecture.name))
       /\ ~Member(opt.name, negated_components)
    THEN apply_enabled(opt,
             IF opt.enable_by_default
             THEN [build_config EXCEPT !.components = Append(@, opt.name)]
             ELSE build_config)
    ELSE build_config

\* HostBuildConfig.apply: host is the host's options in the order in which the
\* dict is iterated.
RECURSIVE apply(_, _, _)
apply(host, build_config, negated_components) ==
    IF host = <<>> THEN [build_config EXCEPT !.components = Sorted(@)]
    ELSE apply(Tail(host), apply_option(Head(host), build_config, negated_components),
               negated_components)

\* The result of BuildConfig.create: the configuration, or the error raised
\* with its fields.
Created_(config, err, option, raw_option, qualifier) ==
    [config |-> config, err |-> err, qualifier |-> qualifier, option |-> option,
     raw_option |-> raw_option]

\* BuildConfig.create after the option string was parsed:
\* BuildConfig(hi.build, arch, components, features, settings, extras, ...).
create_parsed(pkg, arch_name, host, parsed, extras, branch) ==
    IF parsed.err # "none"
    THEN Created_(NoConfig, parsed.err, parsed.option, parsed.raw_option, None)
    ELSE Created_(apply(host,
                        BuildConfig(ArchStr(arch_name), parsed.components,
                                    parsed.features, parsed.settings, extras,
                                    branch, pkg),
                        parsed.negate_components),
                  "none", "none", <<>>, None)

\* BuildConfig.create after the architecture was chosen.
create_resolved(pkg, a, host, opts, extras, branch, ignore_unknown_options) ==
    IF a.err # "none" THEN Created_(NoConfig, a.err, "none", <<>>, a.qualifier)
    ELSE create_parsed(pkg, a.name, host,
                       parse_options(pkg, a.name, opts, NoParse, ignore_unknown_options),
                       extras, branch)

\* BuildConfig.create(package, arch=..., opts=..., extras=..., branch=...,
\* ignore_unknown_options=...) on a host with that uname whose defaults are
\* `host'.
BuildConfig_create(pkg, arch, uname, host, opts, extras, branch, ignore_unknown_options) ==
    create_resolved(pkg, resolve_architecture(arch, uname), host, opts, extras,
                    branch, ignore_unknown_options)

----------------------------------------------------------------------------
\* The program state as one value, for the operations that call each other.

St ==
    [builds |-> builds, objs |-> objs, messages |-> messages,
     save_flag |-> save_flag, dirs |-> dirs, manifest |-> manifest,
     clock |-> clock, attrs |-> attrs]

Commit(s) ==
    /\ builds' = s.builds
    /\ objs' = s.objs
    /\ messages' = s.messages
    /\ save_flag' = s.save_flag
    /\ dirs' = s.dirs
    /\ manifest' = s.manifest
    /\ clock' = s.clock
    /\ attrs' = s.attrs

\* Build.__init__ for a new build: the object gets the next id.
Build(s, pkg, config, initial_status) ==
    LET cfg == IF config.branch \in Branches(pkg) THEN config
               ELSE [config EXCEPT !.branch = CurrentBranch(pkg)]
        name == get_build_name(pkg, cfg)
    IN [s EXCEPT
          !.objs = Append(@, [name |-> name, package |-> pkg,
                              config |-> cfg, uuid |-> Len(s.objs) + 1,
                              directory |-> get_build_directory(pkg, name)]),
          !.messages = Append(@, <<BuildMessage(s.clock, initial_status, None)>>),
          !.clock = @ + 1]

status(s, b) == s.messages[b][Len(s.messages[b])].status

\* configured, were it to look at nothing.
configured_always(s, b) == TRUE

configured(s, b) ==
    \E i \in 1 .. Len(s.messages[b]) : s.messages[b][i].status = Configured

\* compiled, were it to look for Complete anywhere in the log.
compiled_once(s, b) ==
    \E i \in 1 .. Len(s.messages[b]) : s.messages[b][i].status = Complete

compiled(s, b) == status(s, b) = Complete

\* The marking, were it to ignore noact.
set_save_flag_always(s) ==
    [s EXCEPT !.save_flag = TRUE, !.attrs = @ \cup {"save_flag"}]

\* Build.update's last step: the package set is marked unless noact is set.
set_save_flag(s) ==
    [s EXCEPT !.save_flag = IF noact THEN @ ELSE TRUE,
              !.attrs = IF noact THEN @ ELSE @ \cup {"save_flag"}]

\* update, were it to append nothing in a dry run.
update_skips_under_noact(s, b, st, message) ==
    IF noact THEN s
    ELSE set_save_flag(
           [s EXCEPT
              !.messages[b] = Append(@, BuildMessage(s.clock, st,
                                 IF message = None THEN default_message(st) ELSE message)),
              !.clock = @ + 1])

update(s, b, st, message) ==
    set_save_flag(
      [s EXCEPT
         !.messages[b] = Append(@, BuildMessage(s.clock, st,
                            IF message = None THEN default_message(st) ELSE message)),
         !.clock = @ + 1])

\* The lookup, were it to return every build of the package.
find_builds_all(s, pkg, config) == s.builds[pkg]

find_builds(s, pkg, config) ==
    SelectSeq(s.builds[pkg], LAMBDA x : ConfigEq(s.objs[x].config, config))

find_build(s, pkg, config) ==
    LET matches == find_builds(s, pkg, config)
    IN IF Len(matches) > 0 THEN matches[1] ELSE NoBuild

have_build(s, pkg, config) == find_build(s, pkg, config) # NoBuild

\* list.index and del list[idx]
Index(seq, x) == CHOOSE i \in 1 .. Len(seq) : seq[i] = x /\ \A j \in 1 .. (i - 1) : seq[j] # x

RemoveAt(seq, i) == SubSeq(seq, 1, i - 1) \o SubSeq(seq, i + 1, Len(seq))

\* add_build, were replacing a build to rewrite the log of the build replaced.
add_build_rewrites_log(s, pkg, b, replace) ==
    LET owned == find_build(s, pkg, s.objs[b].config)
    IN IF owned = NoBuild \/ s.objs[owned].directory # s.objs[b].directory
       THEN [st |-> [s EXCEPT !.builds[pkg] = Append(@, b),
                              !.save_flag = IF noact THEN @ ELSE TRUE,
                              !.attrs = IF noact THEN @ ELSE @ \cup {"save_flag"}],
             err |-> "none"]
       ELSE IF replace
       THEN [st |-> [s EXCEPT !.builds[pkg] =
                         Append(RemoveAt(@, Index(@, owned)), b),
                              !.messages[owned] =
                         <<BuildMessage(s.clock, PreexistingBuild, None)>>],
             err |-> "none"]
       ELSE [st |-> s, err |-> "RuntimeError"]

add_build(s, pkg, b, replace) ==
    LET owned == find_build(s, pkg, s.objs[b].config)
    IN IF owned = NoBuild \/ s.objs[owned].directory # s.objs[b].directory
       THEN [st |-> [s EXCEPT !.builds[pkg] = Append(@, b),
                              !.save_flag = IF noact THEN @ ELSE TRUE,
                              !.attrs = IF noact THEN @ ELSE @ \cup {"save_flag"}],
             err |-> "none"]
       ELSE IF replace
       THEN [st |-> [s EXCEPT !.builds[pkg] =
                         Append(RemoveAt(@, Index(@, owned)), b)],
             err |-> "none"]
       ELSE [st |-> s, err |-> "RuntimeError"]

----------------------------------------------------------------------------
\* Package.purge_builds.  config is a set holding the configuration given (empty
\* for None); names and uuids are the sets given (empty for None or []).

RemoveFirst(seq, x) == RemoveAt(seq, Index(seq, x))

\* The body of the loop without the callback: under noact nothing is done,
\* otherwise the directory is deleted and the build leaves the list.
purge_one_acts_under_noact(s, pkg, b) ==
    [s EXCEPT !.dirs = @ \ {s.objs[b].directory},
              !.builds[pkg] = RemoveFirst(@, b)]

purge_one(s, pkg, b) ==
    IF noact THEN s
    ELSE [s EXCEPT !.dirs = @ \ {s.objs[b].directory},
                   !.builds[pkg] = RemoveFirst(@, b)]

\* shutil.rmtree raises when the directory does not exist.
RECURSIVE purge_loop(_, _, _, _, _)
purge_loop(s, pkg, _builds, i, callbacks) ==
    IF i > Len(_builds)
    THEN [st |-> s, err |-> "none", ret |-> Len(_builds), callbacks |-> callbacks]
    ELSE IF ~noact /\ s.objs[_builds[i]].directory \notin s.dirs
    THEN [st |-> s, err |-> "OSError", ret |-> 0, callbacks |-> callbacks + 1]
    ELSE purge_loop(purge_one(s, pkg, _builds[i]), pkg, _builds, i + 1,
                    callbacks + 1)

purge_select_all(s, pkg, config, names, uuids) == s.builds[pkg]

purge_select(s, pkg, config, names, uuids) ==
    IF config # {}
    THEN find_builds(s, pkg, CHOOSE c \in config : TRUE)
    ELSE IF names # {} \/ uuids # {}
    THEN SelectSeq(s.builds[pkg],
                   LAMBDA b : \/ (names # {} /\ s.objs[b].name \in names)
                              \/ (uuids # {} /\ s.objs[b].uuid \in uuids))
    ELSE s.builds[pkg]

purge_builds(s, pkg, config, names, uuids) ==
    purge_loop(s, pkg, purge_select(s, pkg, config, names, uuids), 1, 0)

----------------------------------------------------------------------------
\* PackageSet.save(): what yaml.dump(self) writes is the builds of every
\* package with their fields and logs.

Dump(s) ==
    [p \in Pkgs |->
        [i \in 1 .. Len(s.builds[p]) |->
            [build |-> s.objs[s.builds[p][i]],
             messages |-> s.messages[s.builds[p][i]]]]]

\* out is "ok" when chimi.yaml can be opened for writing and "fail" when the
\* open raises.  save_flag and the packages' _repository and _branches leave
\* __dict__ before the write; after it save_flag comes back as False and the
\* packages' fields with the values they had.  The finally clause restores
\* the mutex only.
save_locked(s, out) ==
    IF "save_flag" \notin s.attrs \/ s.save_flag
    THEN IF out = "ok"
         THEN [st |-> [s EXCEPT !.manifest = [writes |-> @.writes + 1,
                                              packages |-> Dump(s)],
                                !.save_flag = FALSE,
                                !.attrs = @ \cup {"save_flag"}],
               err |-> "none"]
         ELSE [st |-> [s EXCEPT !.attrs = @ \ ({"save_flag"} \cup PackageFields)],
               err |-> "IOError"]
    ELSE [st |-> s, err |-> "none"]

\* PackageSet.save() from its first statement, the assertion on noact.
save(s, out) ==
    IF noact THEN [st |-> s, err |-> "AssertionError"] ELSE save_locked(s, out)

\* PackageSet.__del__, when the interpreter runs it.
del(s) ==
    IF "save_flag" \in s.attrs /\ ~noact /\ s.save_flag THEN save(s, "ok").st ELSE s

----------------------------------------------------------------------------
\* Loading chimi.yaml.  A persisted record of a package is a Build as
\* yaml.dump wrote it: [build |-> its fields, messages |-> its log].

\* Build.__lt__: the comparison of the times of the most recent messages.
lt(a, b) == a.messages[Len(a.messages)].time < b.messages[Len(b.messages)].time

\* The build kept, were the least recently updated one kept.
sorted_first(recs, G) ==
    CHOOSE i \in G :
        \A j \in G : ~lt(recs[j], recs[i]) /\ (j < i => lt(recs[i], recs[j]))

\* sorted(_builds)[-1] for the records at the positions G: the sort is stable,
\* so of the records that no other is later than the last one is kept.
sorted_last(recs, G) ==
    CHOOSE i \in G :
        \A j \in G : ~lt(recs[i], recs[j]) /\ (j > i => lt(recs[j], recs[i]))

\* The missing builds, were the directories not looked at.
setstate_missing_none(recs, d) == {}

\* Package.__setstate__, first loop: the positions of the records whose
\* directory does not exist.
setstate_missing(recs, d) ==
    {i \in DOMAIN recs : recs[i].build.directory \notin d}

same_directory(recs, i) ==
    {j \in DOMAIN recs : recs[j].build.directory = recs[i].build.directory}

\* Package.__setstate__, the loop over the directory counts: all but the
\* last of the sorted records of a directory that several records have.
setstate_discarded(recs) ==
    {i \in DOMAIN recs :
        /\ Cardinality(same_directory(recs, i)) > 1
        /\ i # sorted_last(recs, same_directory(recs, i))}

\* re.sub(..., '', repository.git.describe(build.version, all=True)): the
\* repository of the model has one ref.
describe(pkg) == "master"

\* Package.__setstate__, first loop: a branch that is not a local branch is
\* derived again.
setstate_branch(pkg, rec) ==
    IF rec.build.config.branch \in Branches(pkg) THEN rec
    ELSE [rec EXCEPT !.build.config.branch = describe(pkg)]

builds_to_delete(recs, d) == setstate_missing(recs, d) \cup setstate_discarded(recs)

\* The orders list(set(self.builds).difference(builds_to_delete)) can give:
\* a set of Builds iterates in the order of their addresses.  The list is
\* rebuilt only when something is deleted.
ListOrders(recs, d) ==
    IF builds_to_delete(recs, d) = {} THEN {[i \in DOMAIN recs |-> i]}
    ELSE {f \in [1 .. Cardinality(DOMAIN recs \ builds_to_delete(recs, d))
                   -> DOMAIN recs \ builds_to_delete(recs, d)] :
             \A i, j \in DOMAIN f : f[i] = f[j] => i = j}

\* The list of builds, were it always rebuilt from the set in reverse.
Package_setstate_reversed(pkg, recs, d, order) ==
    [builds |-> [k \in DOMAIN order |->
                    setstate_branch(pkg, recs[order[Len(order) + 1 - k]])],
     do_save |-> \/ setstate_missing(recs, d) # {}
                 \/ \E i \in DOMAIN recs :
                       recs[i].build.config.branch \notin Branches(pkg)]

\* Package.__setstate__(state): the builds of the package in the order
\* `order', and whether the package set was marked.
Package_setstate(pkg, recs, d, order) ==
    [builds |-> [k \in DOMAIN order |-> setstate_branch(pkg, recs[order[k]])],
     do_save |-> \/ setstate_missing(recs, d) # {}
                 \/ \E i \in DOMAIN recs :
                       recs[i].build.config.branch \notin Branches(pkg)]

\* yaml.load: the objects of chimi.yaml in a new process, charm's builds
\* before changa's.  save_flag is an attribute of the package set only when
\* a Package.__setstate__ set it; load adds the mutex.  Package.__setstate__
\* sets _repository and _branches to None.
yaml_load(s, c, g) ==
    [s EXCEPT
       !.builds = [p \in Pkgs |->
                     IF p = "charm" THEN [i \in 1 .. Len(c.builds) |-> i]
                     ELSE [i \in 1 .. Len(g.builds) |-> Len(c.builds) + i]],
       !.objs = [i \in 1 .. Len(c.builds) + Len(g.builds) |->
                   (c.builds \o g.builds)[i].build],
       !.messages = [i \in 1 .. Len(c.builds) + Len(g.builds) |->
                       (c.builds \o g.builds)[i].messages],
       !.save_flag = c.do_save \/ g.do_save,
       !.attrs = PackageFields \cup (IF c.do_save \/ g.do_save
                                      THEN {"mutex", "save_flag"} ELSE {"mutex"})]

\* PackageSet.load after out.save(): noact gets its value back only when
\* save returned.
load_saved(r) ==
    [noact |-> IF r.err = "none" THEN noact ELSE FALSE, err |-> r.err,
     st |-> r.st, saved |-> r.err = "none"]

\* PackageSet.load after yaml.load: with save_flag among the attributes the
\* set is saved with noact set to False for the time of the call.
load_loaded(l, out) ==
    IF "save_flag" \in l.attrs THEN load_saved(save_locked(l, out))
    ELSE [noact |-> noact, err |-> "none", st |-> l, saved |-> FALSE]

\* PackageSet.load(directory); c and g are what Package.__setstate__ made of
\* the records of charm and changa.
PackageSet_load(s, c, g, out) == load_loaded(yaml_load(s, c, g), out)

----------------------------------------------------------------------------
\* check_call: under noact nothing is executed and 0 is returned; otherwise
\* the tool succeeds ("ok") or exits non-zero ("fail", CalledProcessError).
\* An interrupt ("int", KeyboardInterrupt) can arrive in either case.

Outcomes == {"ok", "fail", "int"}

check_call(out) == IF noact /\ out = "fail" THEN "ok" ELSE out

\* The tools run, were check_call not to look at noact.
executed_always(tool) == {tool}

executed(tool) == IF noact THEN {} ELSE {tool}

\* The result of a build driver: the state it leaves, the exception it raises,
\* the Build it returns, the tools it executed and the Build whose tool
\* invocation was interrupted.
Result(s, err, ret, tools, intr) ==
    [st |-> s, err |-> err, ret |-> ret, tools |-> tools, intr |-> intr]

\* The lookup, were Package.find_build to take the keyword and ignore it.
find_build_kw_accepted(s, pkg, config) ==
    [b |-> find_build(s, pkg, config), err |-> "none"]

\* package.find_build(config, require_matching_branch=True): Package.find_build
\* takes no such keyword, the call raises TypeError.
find_build_kw(s, pkg, config) == [b |-> NoBuild, err |-> "TypeError"]

\* CharmDefinition.build, from check_call(build_args, cwd=build_cwd): s is the
\* state after update(Compile), oc the outcome of the tool.
Charm_compile(s, b, tool, oc) ==
    IF oc = "fail"
    THEN Result(update(s, b, CompileFailed, None), "none", b, executed(tool), NoBuild)
    ELSE IF oc = "int"
    THEN Result(s, "KeyboardInterrupt", NoBuild, executed(tool), b)
    ELSE Result(update(s, b, Complete, "Charm++ build complete."),
                "none", b, executed(tool), NoBuild)

\* The tool, when it is executed, makes the build directory.
Charm_run(s, b, tool, out) ==
    Charm_compile(IF noact THEN s
                  ELSE [s EXCEPT !.dirs = @ \cup {s.objs[b].directory}],
                  b, tool, check_call(out))

\* CharmDefinition.build without _continue, after Build() and add_build():
\* build_args takes config.architecture.name, which a str does not have.
Charm_fresh(s, added, b, config, out) ==
    IF added.err # "none" THEN Result(s, added.err, NoBuild, {}, NoBuild)
    ELSE IF config.architecture.kind = "str"
    THEN Result(added.st, "AttributeError", NoBuild, {}, NoBuild)
    ELSE Charm_run(update(added.st, b, Compile, "build_args"), b, "./build", out)

\* CharmDefinition.build with _continue, after the lookup of the build.
Charm_continue(s, found, out) ==
    IF found.err # "none" THEN Result(s, found.err, NoBuild, {}, NoBuild)
    ELSE IF found.b = NoBuild
    THEN Result(s, "ValueError: No such build to continue", NoBuild, {}, NoBuild)
    ELSE Charm_run(update(s, found.b, Compile, "build_args"), found.b, "gmake", out)

CharmDefinition_build(s, config, continue, replace, force, out) ==
    IF continue
    THEN Charm_continue(s, find_build_kw(s, "charm", config), out)
    ELSE Charm_fresh(s, add_build(Build(s, "charm", config, Unconfigured),
                                  "charm", Len(s.objs) + 1, replace),
                     Len(s.objs) + 1, config, out)

\* The Charm++ configuration ChaNGaDefinition.build derives with
\* BuildConfig.create(charm, opts=config.source_opts, extras=config.extras,
\* branch=..., ignore_unknown_options=True): no architecture is passed, so
\* the host's architecture name is used.
charm_config(config) ==
    BuildConfig(ArchStr(get_architecture), config.components,
                {f \in config.features : f[1] \in get_configure_options("charm")},
                {f \in config.settings : f[1] \in get_configure_options("charm")},
                config.extras,
                IF config.branch \in Branches("charm") THEN config.branch
                ELSE CurrentBranch("charm"),
                "charm")

BuildsDir == <<"changa", "builds">>

\* Package.build for the Charm++ package.
Package_build_charm(s, config, continue, replace, force, out) ==
    IF CurrentBranch("charm") # config.branch
    THEN Result(s, "NameError", NoBuild, {}, NoBuild)
    ELSE CharmDefinition_build(s, config, continue, replace, force, out)

\* ChaNGaDefinition.build, from check_call(['make']): s is the state after
\* update(Compile), om the outcome of make.
ChaNGa_make(s, b, tools, intr, om) ==
    IF om = "fail"
    THEN Result(update(s, b, CompileFailed, None), "none", b, tools, intr)
    ELSE IF om = "int"
    THEN Result(s, "KeyboardInterrupt", NoBuild, tools, b)
    ELSE Result(update(s, b, Complete, "ChaNGa build complete."),
                "none", b, tools, intr)

\* ChaNGaDefinition.build, from `if _build.configured`.
ChaNGa_compile(s, b, tools, intr, outs) ==
    IF ~configured(s, b) THEN Result(s, "none", b, tools, intr)
    ELSE ChaNGa_make(update(s, b, Compile, None), b,
                     tools \cup executed("make"), intr, check_call(outs.make))

\* ChaNGaDefinition.build, from check_call(configure_invocation): s is the
\* state after update(Configure), oc the outcome of configure.  An interrupt
\* is caught and recorded here.
ChaNGa_configured(s, b, tools, oc, outs) ==
    ChaNGa_compile(update(s, b,
                          IF oc = "fail" THEN ConfigureFailed
                          ELSE IF oc = "int" THEN InterruptedByUser
                          ELSE Configured,
                          None),
                   b, tools, IF oc = "int" THEN b ELSE NoBuild, outs)

\* ChaNGaDefinition.build, from `if (not _continue) or not _build.configured`.
ChaNGa_configure(s, b, tools, continue, outs) ==
    IF continue /\ configured(s, b)
    THEN ChaNGa_compile(s, b, tools, NoBuild, outs)
    ELSE ChaNGa_configured(update(s, b, Configure, "configure_invocation"), b,
                           tools \cup executed("configure"),
                           check_call(outs.configure), outs)

\* ChaNGaDefinition.build, from os.makedirs(_build.directory).
ChaNGa_makedirs(s, b, tools, continue, outs) ==
    ChaNGa_configure(IF noact THEN s
                     ELSE [s EXCEPT !.dirs = @ \cup {s.objs[b].directory}],
                     b, tools, continue, outs)

\* ChaNGaDefinition.build without _continue, after Build() and add_build().
ChaNGa_fresh(s, added, b, tools, outs) ==
    IF added.err # "none" THEN Result(s, added.err, NoBuild, tools, NoBuild)
    ELSE ChaNGa_makedirs(added.st, b, tools, FALSE, outs)

\* ChaNGaDefinition.build with _continue, after the lookup of the build.
ChaNGa_continue(s, found, tools, force, outs) ==
    IF found.err # "none" THEN Result(s, found.err, NoBuild, tools, NoBuild)
    ELSE IF found.b = NoBuild
    THEN Result(s, "ValueError: No such build to continue", NoBuild, tools, NoBuild)
    ELSE IF compiled(s, found.b) /\ ~force
    THEN Result(s, "ValueError: Cannot continue complete build", NoBuild, tools, NoBuild)
    ELSE ChaNGa_makedirs(s, found.b, tools, TRUE, outs)

\* The second half of ChaNGaDefinition.build, from `assert(config.branch != None)`.
ChaNGa_build_own(s, charm_tools, config, continue, replace, force, outs) ==
    IF continue
    THEN ChaNGa_continue(s, find_build_kw(s, "changa", config), charm_tools,
                         force, outs)
    ELSE ChaNGa_fresh(s, add_build(Build(s, "changa", config, Unconfigured),
                                   "changa", Len(s.objs) + 1, replace),
                      Len(s.objs) + 1, charm_tools, outs)

\* ChaNGaDefinition.build after the Charm++ build it started was registered
\* (or was found registered): save_flag is set whatever noact says.
ChaNGa_charm_registered(rc, added, config, continue, replace, force, outs) ==
    IF added.err # "none"
    THEN Result(rc.st, added.err, NoBuild, rc.tools, NoBuild)
    ELSE ChaNGa_build_own([added.st EXCEPT !.save_flag = TRUE,
                                           !.attrs = @ \cup {"save_flag"}], rc.tools,
                          config, continue, replace, force, outs)

\* ChaNGaDefinition.build after charm.build(charm_config) ended with rc.
ChaNGa_after_charm(rc, config, continue, replace, force, outs) ==
    IF rc.err # "none" THEN rc
    ELSE IF failure(status(rc.st, rc.ret))
    THEN Result(rc.st, "none", NoBuild, rc.tools, NoBuild)
    ELSE ChaNGa_charm_registered(rc,
             IF have_build(rc.st, "charm", rc.st.objs[rc.ret].config)
             THEN [st |-> rc.st, err |-> "none"]
             ELSE add_build(rc.st, "charm", rc.ret, replace),
             config, continue, replace, force, outs)

\* ChaNGaDefinition.build, from the lookup of a matching Charm++ build.
ChaNGa_find_charm(s, config, continue, replace, force, outs) ==
    IF find_build(s, "charm", charm_config(config)) # NoBuild
    THEN ChaNGa_build_own(s, {}, config, continue, replace, force, outs)
    ELSE ChaNGa_after_charm(
             Package_build_charm(s, charm_config(config), FALSE, FALSE, FALSE,
                                 outs.charm),
             config, continue, replace, force, outs)

ChaNGaDefinition_build(s, config, continue, replace, force, outs) ==
    ChaNGa_find_charm(IF BuildsDir \notin s.dirs /\ ~noact
                      THEN [s EXCEPT !.dirs = @ \cup {BuildsDir}] ELSE s,
                      config, continue, replace, force, outs)

\* Package.build(config, _continue, replace, force).
Package_build(s, pkg, config, continue, replace, force, outs) ==
    IF CurrentBranch(pkg) # config.branch
    THEN Result(s, "NameError", NoBuild, {}, NoBuild)
    ELSE IF pkg = "charm"
    THEN CharmDefinition_build(s, config, continue, replace, force, outs.charm)
    ELSE ChaNGaDefinition_build(s, config, continue, replace, force, outs)

\* BuildConfig.create asks the package's configure script for its options:
\* get_configure_options runs `configure --help' with subprocess.check_output,
\* which does not look at noact.
create_queries(pkg) == {<<pkg, "configure", "--help">>}

\* The commands Package.build runs with subprocess.check_output:
\* ChaNGaDefinition.build derives the Charm++ configuration with
\* BuildConfig.create.
Package_build_queries(pkg, config) ==
    IF CurrentBranch(pkg) # config.branch THEN {}
    ELSE IF pkg = "changa" THEN create_queries("charm")
    ELSE {}

----------------------------------------------------------------------------
\* chimi.command.build in build mode (no purge option).  opts stands for the
\* -o tokens: the components and features named.  BuildConfig.create resolves
\* them, for each package, with the host's architecture name.

Options == [components : {<<>>}, features : FeatureChoices]

create(pkg, opts) ==
    IF \E f \in opts.features : f[1] \notin get_configure_options(pkg)
    THEN [config |-> NoConfig, err |-> "InvalidBuildOptionError"]
    ELSE [err |-> "none",
          config |-> BuildConfig(ArchStr(get_architecture), opts.components,
                                 opts.features, {}, <<>>, None, pkg)]

CmdResult(s, err, exit, tools, intr, handled) ==
    [st |-> s, err |-> err, exit |-> exit, tools |-> tools, intr |-> intr,
     handled |-> handled]

\* The end of the KeyboardInterrupt handler: the manifest is written unless
\* noact is set, and the process exits.
command_exit(s, found, tools, intr) ==
    CmdResult(IF noact THEN s
              ELSE save([s EXCEPT !.save_flag = TRUE,
                                  !.attrs = @ \cup {"save_flag"}], "ok").st,
              "none", "exit(1)", tools, intr, found)

\* The KeyboardInterrupt handler: ps[item].find_build(config).update(...).
command_interrupted(s, found, tools, intr) ==
    IF found = NoBuild
    THEN CmdResult(s, "AttributeError", "crash", tools, intr, NoBuild)
    ELSE command_exit(update(s, found, InterruptedByUser, None), found, tools, intr)

RECURSIVE command_build(_, _, _, _, _, _, _, _, _)
RECURSIVE command_item(_, _, _, _, _, _, _, _, _, _)
RECURSIVE command_built(_, _, _, _, _, _, _, _, _, _)

\* The loop body after ps[item].build(...) ended with r.
command_built(r, config, which, i, opts, continue, replace, force, outs, tools) ==
    IF r.err = "KeyboardInterrupt"
    THEN command_interrupted(r.st, find_build(r.st, which[i], config),
                             tools \cup r.tools, r.intr)
    ELSE IF r.err # "none"
    THEN CmdResult(r.st, r.err, "crash", tools \cup r.tools, r.intr, NoBuild)
    ELSE command_build(r.st, which, i + 1, opts, continue, replace, force, outs,
                       tools \cup r.tools)

\* The loop body, were it to build without looking for a complete build.
command_item_rebuilds(s, created, which, i, opts, continue, replace, force, outs, tools) ==
    IF created.err # "none"
    THEN CmdResult(s, created.err, "crash", tools, NoBuild, NoBuild)
    ELSE command_built(Package_build(s, which[i], created.config, continue,
                                     replace, force, outs),
                       created.config, which, i, opts, continue, replace, force,
                       outs, tools)

\* The loop body after BuildConfig.create.
command_item(s, created, which, i, opts, continue, replace, force, outs, tools) ==
    IF created.err # "none"
    THEN CmdResult(s, created.err, "crash", tools, NoBuild, NoBuild)
    ELSE IF /\ find_build(s, which[i], created.config) # NoBuild
            /\ s.objs[find_build(s, which[i], created.config)].config.branch
                  = created.config.branch
            /\ compiled(s, find_build(s, which[i], created.config))
            /\ ~force
    THEN command_build(s, which, i + 1, opts, continue, replace, force, outs, tools)
    ELSE command_built(Package_build(s, which[i], created.config, continue,
                                     replace, force, outs),
                       created.config, which, i, opts, continue, replace, force,
                       outs, tools)

\* chimi.command.build from item i of which on; after the loop the manifest is
\* written unless noact is set.
command_build(s, which, i, opts, continue, replace, force, outs, tools) ==
    IF i > Len(which)
    THEN CmdResult(IF noact THEN s ELSE save(s, "ok").st, "none", "return", tools,
                   NoBuild, NoBuild)
    ELSE command_item(s, create(which[i], opts), which, i, opts, continue,
                      replace, force, outs, tools)

Which == {<<"charm">>, <<"changa">>, <<"charm", "changa">>}

----------------------------------------------------------------------------
\* The threads that call PackageSet.save().
Threads == 1 .. MaxThreads

NoThread == 0

----------------------------------------------------------------------------
\* CharmDefinition.load_architectures.

\* The directories of src/arch that the `ls | egrep -v' of load_architectures
\* prints, in the order of ls, on the trees of the model.
ArchitectureDirs ==
    <<<<"bluegenel">>, <<"mpi", "linux", "x86_64">>, <<"net", "darwin", "x86_64">>,
      <<"net", "linux", "x86_64">>>>

\* The directories of base architectures, which the egrep leaves out.
BaseDirs == {<<"mpi">>, <<"net">>}

CatalogNames ==
    {<<"common">>} \cup BaseDirs \cup {ArchitectureDirs[i] : i \in 1 .. Len(ArchitectureDirs)}

\* CharmArchitecture.__init__: children starts empty.  The options and
\* compilers read from the architecture's directory are not followed here.
NewArchitecture(parent, name, is_base) ==
    [name |-> name, parent |-> parent, is_base |-> is_base, children |-> <<>>]

\* The base architecture of name: the base's object is made when the name is
\* not a key yet, otherwise the object found is marked as a base.
load_base(c, common, base_name) ==
    IF c.Architectures[base_name] = 0
    THEN [c EXCEPT !.objects = Append(@, NewArchitecture(common, base_name, TRUE)),
                   !.Architectures[base_name] = Len(c.objects) + 1]
    ELSE [c EXCEPT !.objects[c.Architectures[base_name]].is_base = TRUE]

\* arch = CharmArchitecture(parent, name, ...), Architectures[name] = arch and
\* parent.children.append(arch).
load_arch(c, parent, name) ==
    [c EXCEPT !.objects = Append([@ EXCEPT ![parent].children =
                                     Append(@, Len(c.objects) + 1)],
                                 NewArchitecture(parent, name, FALSE)),
              !.Architectures[name] = Len(c.objects) + 1]

\* The body of the loop for one name: base_name is the part before the first
\* `-'.
load_name(c, common, name) ==
    IF Len(name) > 1 /\ <<name[1]>> \in c.base_dirs
    THEN load_arch(load_base(c, common, <<name[1]>>),
                   load_base(c, common, <<name[1]>>).Architectures[<<name[1]>>], name)
    ELSE load_arch(c, common, name)

RECURSIVE load_names(_, _, _)
load_names(c, common, i) ==
    IF i > Len(c.listing) THEN c
    ELSE load_names(load_name(c, common, c.listing[i]), common, i + 1)

\* load_architectures: a new object for `common' is bound first.
load_architectures(c) ==
    load_names([c EXCEPT !.objects = Append(@, NewArchitecture(0, <<"common">>, TRUE)),
                         !.Architectures[<<"common">>] = Len(c.objects) + 1],
               Len(c.objects) + 1, 1)

----------------------------------------------------------------------------
\* The record of the last operation.

NoLast ==
    [status |-> Unconfigured, pkg |-> "none", b |-> NoBuild, config |-> NoConfig,
     err |-> "none", opts |-> [components |-> <<>>, features |-> {}],
     directory |-> <<>>, matches |-> <<>>, replace |-> FALSE,
     callbacks |-> 0, ret |-> 0, saved |-> FALSE, tools |-> {}, intr |-> NoBuild,
     continue |-> FALSE, force |-> FALSE, exit |-> "none", which |-> <<>>,
     op |-> "none", args |-> <<{}, {}, {}>>, persisted |-> [p \in Pkgs |-> <<>>],
     queries |-> {}]

\* CharmDefinition.Architectures before it is loaded, on a Charm++ tree
\* without architecture directories.  objects holds the CharmArchitecture
\* objects made so far; parent and the elements of children are positions in
\* it, 0 for None, and Architectures gives the object each name is bound to,
\* 0 for a name that is not a key.
NoCatalog ==
    [Architectures |-> [n \in CatalogNames |-> 0], objects |-> <<>>,
     base_dirs |-> {}, listing |-> <<>>]

\* No construction of a configuration was performed.
NoResolved ==
    [arch |-> <<>>, components |-> <<>>, extras |-> <<>>, package |-> "none",
     config |-> NoConfig, uname |-> <<"linux", "x86_64">>, err |-> "none",
     qualifier |-> None, option |-> "none", raw_option |-> <<>>,
     ignore_unknown_options |-> FALSE, opts |-> <<>>, host |-> <<>>,
     call |-> "none", done |-> FALSE, status_file |-> FALSE,
     catalog |-> NoCatalog]

----------------------------------------------------------------------------
\* PackageSet.__init__: no builds are recorded, nothing has been written.

Init ==
    /\ noact \in BOOLEAN
    /\ builds = [p \in Pkgs |-> <<>>]
    /\ objs = <<>>
    /\ messages = <<>>
    /\ save_flag = FALSE
    /\ attrs = {"mutex", "save_flag"} \cup PackageFields
    /\ lock = NoThread
    /\ pc = [t \in Threads |-> "idle"]
    /\ dirs = {}
    /\ manifest = [writes |-> 0, packages |-> [p \in Pkgs |-> <<>>]]
    /\ clock = 0
    /\ ops = 0
    /\ running = TRUE
    /\ last = NoLast
    /\ resolved = NoResolved

\* Build(package, config) followed by Package.add_build(build, replace).
\* Build.__init__ reads package.branches, that is Package._branches and
\* Package._repository: without the fields the lookup raises AttributeError.
AddBuild(pkg, config, replace) ==
    /\ running
    /\ IF Fields(pkg) \subseteq attrs
       THEN \E s1 \in {Build(St, pkg, config, Unconfigured)} :
            \E r \in {add_build(s1, pkg, Len(s1.objs), replace)} :
               /\ Commit(IF r.err = "none" THEN r.st ELSE St)
               /\ last' = [NoLast EXCEPT !.op = "add_build", !.pkg = pkg,
                             !.b = IF r.err = "none" THEN Len(s1.objs) ELSE NoBuild,
                             !.directory = s1.objs[Len(s1.objs)].directory,
                             !.config = config, !.replace = replace, !.err = r.err]
       ELSE /\ Commit(St)
            /\ last' = [NoLast EXCEPT !.op = "add_build", !.pkg = pkg,
                          !.config = config, !.replace = replace,
                          !.err = "AttributeError"]
    /\ ops' = ops + 1
    /\ UNCHANGED <<noact, running, resolved, lock, pc>>

\* Build.update, were it to register the build with its package once more.
Update_reregisters(b, st, message) ==
    /\ running
    /\ Commit([update(St, b, st, message) EXCEPT !.builds[objs[b].package] = Append(@, b)])
    /\ last' = [NoLast EXCEPT !.op = "update", !.pkg = objs[b].package,
                  !.b = b, !.status = st]
    /\ ops' = ops + 1
    /\ UNCHANGED <<noact, running, resolved, lock, pc>>

\* Build.update(status, message) on any Build object.
Update(b, st, message) ==
    /\ running
    /\ Commit(update(St, b, st, message))
    /\ last' = [NoLast EXCEPT !.op = "update", !.pkg = objs[b].package,
                  !.b = b, !.status = st]
    /\ ops' = ops + 1
    /\ UNCHANGED <<noact, running, resolved, lock, pc>>

\* Package.purge_builds(config, names, uuids, callback).
PurgeBuilds(pkg, config, names, uuids) ==
    /\ running
    /\ \E r \in {purge_builds(St, pkg, config, names, uuids)} :
          /\ Commit(r.st)
          /\ last' = [NoLast EXCEPT !.op = "purge_builds", !.pkg = pkg,
                        !.err = r.err, !.ret = r.ret, !.callbacks = r.callbacks,
                        !.args = <<config, names, uuids>>]
    /\ ops' = ops + 1
    /\ UNCHANGED <<noact, running, resolved, lock, pc>>

\* PackageSet.save(); out tells whether chimi.yaml can be written.
Save(out) ==
    /\ running
    /\ \E r \in {save(St, out)} :
          /\ Commit(r.st)
          /\ last' = [NoLast EXCEPT !.op = "save", !.err = r.err]
    /\ ops' = ops + 1
    /\ UNCHANGED <<noact, running, resolved, lock, pc>>

\* Package.build(config, _continue, replace, force), called on its own: an
\* exception goes to the caller.
PackageBuild(pkg, config, continue, replace, force, outs) ==
    /\ running
    /\ \E r \in {Package_build(St, pkg, config, continue, replace, force, outs)} :
          /\ Commit(r.st)
          /\ last' = [NoLast EXCEPT !.op = "build", !.pkg = pkg, !.b = r.ret,
                        !.config = config, !.replace = replace,
                        !.continue = continue, !.force = force, !.err = r.err,
                        !.tools = r.tools, !.intr = r.intr,
                        !.queries = Package_build_queries(pkg, config)]
    /\ ops' = ops + 1
    /\ UNCHANGED <<noact, running, resolved, lock, pc>>

\* The build command; the process ends with it.
BuildCommand(which, opts, continue, replace, force, outs) ==
    /\ running
    /\ \E r \in {command_build(St, which, 1, opts, continue, replace, force, outs, {})} :
          /\ Commit(r.st)
          /\ last' = [NoLast EXCEPT !.op = "command", !.b = r.handled,
                        !.replace = replace, !.continue = continue,
                        !.force = force, !.err = r.err, !.tools = r.tools,
                        !.intr = r.intr, !.exit = r.exit,
                        !.queries = create_queries(which[1]),
                        !.which = which, !.opts = opts]
    /\ running' = FALSE
    /\ ops' = ops + 1
    /\ UNCHANGED <<noact, resolved, lock, pc>>

\* PackageSet.__del__, when the interpreter runs it as the process ends.
Destructor ==
    /\ ~running
    /\ "save_flag" \in attrs /\ ~noact /\ save_flag
    /\ Commit(del(St))
    /\ last' = [last EXCEPT !.op = "__del__"]
    /\ UNCHANGED <<noact, ops, running, resolved, lock, pc>>

\* The outcomes of the tools a build of pkg can reach: at most one of them
\* does not succeed, and a Charm++ build runs no configure or make.
ToolOutcomes(pkg) ==
    {o \in [charm : Outcomes, configure : Outcomes, make : Outcomes] :
        /\ Cardinality({t \in {"charm", "configure", "make"} : o[t] # "ok"}) <= 1
        /\ pkg = "charm" => (o.configure = "ok" /\ o.make = "ok")}

PurgeArgs(pkg) ==
    {<<{c}, {}, {}>> : c \in DriverConfigs(pkg)}
        \cup {<<{}, {get_build_name(pkg, c)}, {}>> : c \in DriverConfigs(pkg)}
        \cup {<<{}, {}, {u}>> : u \in 1 .. Len(objs)}
        \cup {<<{}, {}, {}>>}

\* The statuses and messages of the direct Build.update calls of Spec.
UpdateStatuses == {Configured, Complete}

Next ==
    \/ \E pkg \in Pkgs : \E config \in Configs(pkg) : \E replace \in BOOLEAN :
           ops < MaxOps /\ AddBuild(pkg, config, replace)
    \/ \E b \in 1 .. Len(objs) : \E st \in UpdateStatuses :
           ops < MaxOps /\ Update(b, st, None)
    \/ \E pkg \in Pkgs : \E a \in PurgeArgs(pkg) :
           ops < MaxOps /\ PurgeBuilds(pkg, a[1], a[2], a[3])
    \/ ops < MaxOps /\ Save("ok")
    \/ \E pkg \in Pkgs : \E config \in DriverConfigs(pkg) :
       \E continue \in BOOLEAN, replace \in BOOLEAN, force \in BOOLEAN :
       \E outs \in ToolOutcomes(pkg) :
           ops < MaxOps /\ PackageBuild(pkg, config, continue, replace, force, outs)
    \/ \E which \in Which : \E opts \in Options :
       \E continue \in BOOLEAN, replace \in BOOLEAN, force \in BOOLEAN :
       \E outs \in ToolOutcomes(which[Len(which)]) :
           ops < MaxOps /\ BuildCommand(which, opts, continue, replace, force, outs)
    \/ Destructor

Spec == Init /\ [][Next]_vars

\* chimi.command.bootstrap(opts, directory) on a directory without
\* chimi.yaml: the new package set is marked and saved, and the process ends.
Bootstrap ==
    /\ running /\ manifest.writes = 0 /\ objs = <<>>
    /\ \E r \in {save([St EXCEPT !.save_flag = TRUE,
                                  !.attrs = @ \cup {"save_flag"}], "ok")} :
          /\ Commit(r.st)
          /\ last' = [NoLast EXCEPT !.op = "init", !.err = r.err]
    /\ running' = FALSE
    /\ ops' = ops + 1
    /\ UNCHANGED <<noact, resolved, lock, pc>>

\* The operations of Next and the init command.
NextDryRun ==
    \/ Next
    \/ ops < MaxOps /\ Bootstrap

SpecDryRun == Init /\ [][NextDryRun]_vars

\* The message log under every sequence of direct updates.
LogConfigs(pkg) == {BuildConfig(ArchStr(get_architecture), <<>>, {}, {}, <<>>, None, pkg)}

NextLog ==
    \/ \E pkg \in Pkgs : \E config \in LogConfigs(pkg) : \E replace \in BOOLEAN :
           ops < MaxLogOps /\ AddBuild(pkg, config, replace)
    \/ \E b \in 1 .. Len(objs) : \E st \in Statuses : \E message \in {None, "note"} :
           ops < MaxLogOps /\ Update(b, st, message)

SpecLog == Init /\ [][NextLog]_vars

\* Operations performed in one behaviour of SpecStatus.
MaxStatusOps == 4

\* Package.add_existing_builds() for one build directory found on disk:
\* Build(package, config, initial_status=PreexistingBuild), then add_build.
AddExistingBuild(pkg, config) ==
    /\ running
    /\ IF Fields(pkg) \subseteq attrs
       THEN \E s1 \in {Build(St, pkg, config, PreexistingBuild)} :
            \E r \in {add_build(s1, pkg, Len(s1.objs), FALSE)} :
               /\ Commit(IF r.err = "none" THEN r.st ELSE St)
               /\ last' = [NoLast EXCEPT !.op = "add_existing_builds", !.pkg = pkg,
                             !.b = IF r.err = "none" THEN Len(s1.objs) ELSE NoBuild,
                             !.directory = s1.objs[Len(s1.objs)].directory,
                             !.config = config, !.err = r.err]
       ELSE /\ Commit(St)
            /\ last' = [NoLast EXCEPT !.op = "add_existing_builds", !.pkg = pkg,
                          !.config = config, !.err = "AttributeError"]
    /\ ops' = ops + 1
    /\ UNCHANGED <<noact, running, resolved, lock, pc>>

\* The status properties of builds that were registered, discovered on disk
\* and updated in every order.
NextStatus ==
    \/ \E config \in LogConfigs("charm") :
           ops < MaxStatusOps /\ AddBuild("charm", config, TRUE)
    \/ \E config \in LogConfigs("charm") :
           ops < MaxStatusOps /\ AddExistingBuild("charm", config)
    \/ \E b \in 1 .. Len(objs) : \E st \in Statuses :
           ops < MaxStatusOps /\ Update(b, st, None)

SpecStatus == Init /\ [][NextStatus]_vars

\* The build drivers on registries that earlier builds, registrations and
\* updates have filled.
NextBuild ==
    \/ \E pkg \in Pkgs : \E config \in DriverConfigs(pkg) :
           ops < MaxBuildOps /\ AddBuild(pkg, config, FALSE)
    \/ \E b \in 1 .. Len(objs) : \E st \in UpdateStatuses :
           ops < MaxBuildOps /\ Update(b, st, None)
    \/ \E pkg \in Pkgs : \E config \in DriverConfigs(pkg) :
       \E continue \in BOOLEAN, replace \in BOOLEAN, force \in BOOLEAN :
       \E outs \in ToolOutcomes(pkg) :
           ops < MaxBuildOps /\ PackageBuild(pkg, config, continue, replace, force, outs)

SpecBuild == Init /\ [][NextBuild]_vars

\* Operations performed in one behaviour of SpecCommand.
MaxCommandOps == 3

\* The build command on registries that registrations and updates have
\* filled.
NextCommand ==
    \/ \E pkg \in Pkgs : \E config \in DriverConfigs(pkg) :
           ops < MaxCommandOps /\ AddBuild(pkg, config, FALSE)
    \/ \E b \in 1 .. Len(objs) : \E st \in UpdateStatuses :
           ops < MaxCommandOps /\ Update(b, st, None)
    \/ \E which \in Which : \E opts \in Options :
       \E continue \in BOOLEAN, replace \in BOOLEAN, force \in BOOLEAN :
       \E outs \in ToolOutcomes(which[Len(which)]) :
           ops < MaxCommandOps /\ BuildCommand(which, opts, continue, replace, force, outs)
    \/ Destructor

SpecCommand == Init /\ [][NextCommand]_vars

\* Package.find_builds(config) and Package.find_build(config).
FindBuilds(pkg, config) ==
    /\ running
    /\ last' = [NoLast EXCEPT !.op = "find_builds", !.pkg = pkg, !.config = config,
                  !.b = find_build(St, pkg, config),
                  !.matches = find_builds(St, pkg, config)]
    /\ ops' = ops + 1
    /\ UNCHANGED <<noact, builds, objs, messages, save_flag, attrs, lock, pc,
                   dirs, manifest, clock, running, resolved>>

\* Lookups in registries that registrations have filled.
NextFind ==
    \/ \E pkg \in Pkgs : \E config \in Configs(pkg) : \E replace \in BOOLEAN :
           ops < MaxFindOps /\ AddBuild(pkg, config, replace)
    \/ \E pkg \in Pkgs : \E config \in Configs(pkg) :
           ops < MaxFindOps /\ FindBuilds(pkg, config)

SpecFind == Init /\ [][NextFind]_vars

\* The process ends; the interpreter then finalises the PackageSet.
Exit ==
    /\ running
    /\ running' = FALSE
    /\ UNCHANGED <<noact, builds, objs, messages, save_flag, attrs, lock, pc,
                   dirs, manifest, clock, ops, last, resolved>>

\* The store as PackageSet.__init__ leaves it, or as PackageSet.load returns
\* it from a chimi.yaml without builds: yaml.dump never wrote save_flag, so
\* the loaded object has no such attribute, and load adds the mutex.
InitSave ==
    /\ noact \in BOOLEAN
    /\ builds = [p \in Pkgs |-> <<>>]
    /\ objs = <<>>
    /\ messages = <<>>
    /\ save_flag = FALSE
    /\ attrs \in {{"mutex", "save_flag"} \cup PackageFields, {"mutex"} \cup PackageFields}
    /\ lock = NoThread
    /\ pc = [t \in Threads |-> "idle"]
    /\ dirs = {}
    /\ manifest = [writes |-> 0, packages |-> [p \in Pkgs |-> <<>>]]
    /\ clock = 0
    /\ ops = 0
    /\ running = TRUE
    /\ last = NoLast
    /\ resolved = NoResolved

\* Saves between registrations and updates, with chimi.yaml writable or not,
\* until the process ends.
NextSave ==
    \/ \E pkg \in Pkgs : \E config \in LogConfigs(pkg) :
           ops < MaxSaveOps /\ AddBuild(pkg, config, FALSE)
    \/ \E b \in 1 .. Len(objs) : \E st \in UpdateStatuses :
           ops < MaxSaveOps /\ Update(b, st, None)
    \/ \E out \in {"ok", "fail"} : ops < MaxSaveOps /\ Save(out)
    \/ Exit
    \/ Destructor

SpecSave == InitSave /\ [][NextSave]_vars

----------------------------------------------------------------------------
\* Processes that start from a chimi.yaml left by earlier runs.

MaxRecords == 2
MaxLoadOps == 3

\* PackageSet.load(directory) as a process starts: out tells whether
\* chimi.yaml can be written.  An exception of load ends the process.
Load(out) ==
    /\ ~running
    /\ \E oc \in ListOrders(manifest.packages.charm, dirs),
          og \in ListOrders(manifest.packages.changa, dirs) :
       \E r \in {PackageSet_load(St,
                     Package_setstate("charm", manifest.packages.charm, dirs, oc),
                     Package_setstate("changa", manifest.packages.changa, dirs, og),
                     out)} :
          /\ Commit(r.st)
          /\ noact' = r.noact
          /\ running' = (r.err = "none")
          /\ last' = [NoLast EXCEPT !.op = "load", !.err = r.err,
                        !.persisted = manifest.packages, !.saved = r.saved]
    /\ UNCHANGED <<ops, resolved, lock, pc>>

\* The configurations of the records: two build directories of Charm++.
LoadConfigs ==
    {BuildConfig(ArchStr(get_architecture), c, {}, {}, <<>>, "master", "charm") :
        c \in ComponentChoices}

LoadDirs ==
    {get_build_directory("charm", get_build_name("charm", c)) : c \in LoadConfigs}

\* A record of chimi.yaml written by an earlier run: a build of `config'
\* whose branch was `branch' then, updated last at time t.
PersistedRecord(config, branch, uuid, t) ==
    [messages |-> <<BuildMessage(t, Unconfigured, None)>>,
     build |-> [name |-> get_build_name("charm", config), package |-> "charm",
                config |-> [config EXCEPT !.branch = branch], uuid |-> uuid,
                directory |-> get_build_directory("charm",
                                                  get_build_name("charm", config))]]

\* The times of the records of a list: later records updated later,
\* earlier, or at the same time.
PersistedTime(times, i, n) ==
    IF times = "later" THEN i ELSE IF times = "earlier" THEN n - i ELSE 0

PersistedLists ==
    {[i \in 1 .. n |-> PersistedRecord(k[i][1], k[i][2], 100 + i,
                                         PersistedTime(times, i, n))] :
        n \in 0 .. MaxRecords, times \in {"later", "earlier", "same"},
        k \in [1 .. MaxRecords -> LoadConfigs \X {"master", "topic"}]}

InitLoad ==
    /\ noact \in BOOLEAN
    /\ builds = [p \in Pkgs |-> <<>>]
    /\ objs = <<>>
    /\ messages = <<>>
    /\ save_flag = FALSE
    /\ attrs = {}
    /\ lock = NoThread
    /\ pc = [t \in Threads |-> "idle"]
    /\ dirs \in SUBSET LoadDirs
    /\ \E recs \in PersistedLists :
          manifest = [writes |-> 0,
                      packages |-> [p \in Pkgs |-> IF p = "charm" THEN recs ELSE <<>>]]
    /\ clock = MaxRecords + 1
    /\ ops = 0
    /\ running = FALSE
    /\ last = NoLast
    /\ resolved = NoResolved

\* A process loads chimi.yaml, registers and updates builds, saves and ends;
\* the next one loads what it left.  MaxLoadOps bounds the operations on the
\* loaded set, over all processes.
NextLoad ==
    \/ \E out \in {"ok", "fail"} : Load(out)
    \/ \E config \in LoadConfigs : ops < MaxLoadOps /\ AddBuild("charm", config, FALSE)
    \/ \E b \in 1 .. Len(objs) : ops < MaxLoadOps /\ Update(b, Complete, None)
    \/ \E out \in {"ok", "fail"} : ops < MaxLoadOps /\ Save(out)
    \/ Exit
    \/ Destructor

SpecLoad == InitLoad /\ [][NextLoad]_vars

----------------------------------------------------------------------------
\* PackageSet.save() statement by statement, for threads that call it on one
\* store.  pc[t] is "idle" before the call, then the statement thread t is
\* about to execute, and at the end "returned" or the exception raised.
\* Of the attributes only mutex and save_flag are followed here.

Frame == <<noact, builds, objs, messages, dirs, clock, ops, running, last, resolved>>

\* save() is called: assert(chimi.settings.noact == False).
SaveCall(t) ==
    /\ pc[t] = "idle"
    /\ pc' = [pc EXCEPT ![t] = IF noact THEN "AssertionError" ELSE "mutex"]
    /\ UNCHANGED <<Frame, save_flag, attrs, lock, manifest>>

\* self.mutex.acquire(), the attribute lookup: self.mutex.
SaveMutex(t) ==
    /\ pc[t] = "mutex"
    /\ pc' = [pc EXCEPT ![t] = IF "mutex" \in attrs THEN "acquire"
                               ELSE "AttributeError"]
    /\ UNCHANGED <<Frame, save_flag, attrs, lock, manifest>>

\* self.mutex.acquire(), the call: the thread blocks until the lock is free.
SaveAcquire(t) ==
    /\ pc[t] = "acquire"
    /\ lock = NoThread
    /\ lock' = t
    /\ pc' = [pc EXCEPT ![t] = "test"]
    /\ UNCHANGED <<Frame, save_flag, attrs, manifest>>

\* mtx = self.mutex, outside the try statement, and the test
\* `not 'save_flag' in self.__dict__ or self.save_flag'.
SaveTest(t) ==
    /\ pc[t] = "test"
    /\ pc' = [pc EXCEPT ![t] = IF "mutex" \notin attrs THEN "AttributeError"
                               ELSE IF "save_flag" \notin attrs \/ save_flag
                               THEN "del" ELSE "finally"]
    /\ UNCHANGED <<Frame, save_flag, attrs, lock, manifest>>

\* del self.__dict__['mutex'] and del self.__dict__['save_flag'].
SaveDel(t) ==
    /\ pc[t] = "del"
    /\ attrs' = attrs \ {"mutex", "save_flag"}
    /\ pc' = [pc EXCEPT ![t] = "write"]
    /\ UNCHANGED <<Frame, save_flag, lock, manifest>>

\* file(...).write(yaml.dump(self)): an exception goes to the finally clause.
SaveWrite(t, out) ==
    /\ pc[t] = "write"
    /\ IF out = "ok"
       THEN /\ manifest' = [writes |-> manifest.writes + 1, packages |-> Dump(St)]
            /\ pc' = [pc EXCEPT ![t] = "restore"]
       ELSE /\ manifest' = manifest
            /\ pc' = [pc EXCEPT ![t] = "finally, IOError"]
    /\ UNCHANGED <<Frame, save_flag, attrs, lock>>

\* self.save_flag = False and self.mutex = mtx.
SaveRestore(t) ==
    /\ pc[t] = "restore"
    /\ save_flag' = FALSE
    /\ attrs' = attrs \cup {"mutex", "save_flag"}
    /\ pc' = [pc EXCEPT ![t] = "finally"]
    /\ UNCHANGED <<Frame, lock, manifest>>

\* finally: self.mutex = mtx and self.mutex.release().
SaveFinally(t) ==
    /\ pc[t] \in {"finally", "finally, IOError"}
    /\ attrs' = attrs \cup {"mutex"}
    /\ lock' = NoThread
    /\ pc' = [pc EXCEPT ![t] = IF pc[t] = "finally" THEN "returned" ELSE "IOError"]
    /\ UNCHANGED <<Frame, save_flag, manifest>>

\* Build.update in a thread that is not in save(): the store is marked.
Mark ==
    /\ ~noact
    /\ \E t \in Threads : pc[t] = "idle"
    /\ ~("save_flag" \in attrs /\ save_flag)
    /\ save_flag' = TRUE
    /\ attrs' = attrs \cup {"save_flag"}
    /\ UNCHANGED <<Frame, lock, pc, manifest>>

InitThreads ==
    /\ noact \in BOOLEAN
    /\ builds = [p \in Pkgs |-> <<>>]
    /\ objs = <<>>
    /\ messages = <<>>
    /\ save_flag \in BOOLEAN
    /\ attrs = {"mutex", "save_flag"}
    /\ lock = NoThread
    /\ pc = [t \in Threads |-> "idle"]
    /\ dirs = {}
    /\ manifest = [writes |-> 0, packages |-> [p \in Pkgs |-> <<>>]]
    /\ clock = 0
    /\ ops = 0
    /\ running = TRUE
    /\ last = NoLast
    /\ resolved = NoResolved

NextThreads ==
    \/ \E t \in Threads : SaveCall(t)
    \/ \E t \in Threads : SaveMutex(t)
    \/ \E t \in Threads : SaveAcquire(t)
    \/ \E t \in Threads : SaveTest(t)
    \/ \E t \in Threads : SaveDel(t)
    \/ \E t \in Threads : \E out \in {"ok", "fail"} : SaveWrite(t, out)
    \/ \E t \in Threads : SaveRestore(t)
    \/ \E t \in Threads : SaveFinally(t)
    \/ Mark

SpecThreads == InitThreads /\ [][NextThreads]_vars

\* Builds registered in one behaviour of SpecRace.
MaxRaceBuilds == 1

\* Build.update(status) in a thread, its first statements: the BuildMessage
\* is appended to the build's log.
UpdateAppend(t, b, st) ==
    /\ pc[t] = "idle"
    /\ messages' = [messages EXCEPT ![b] = Append(@, BuildMessage(clock, st, default_message(st)))]
    /\ clock' = clock + 1
    /\ pc' = [pc EXCEPT ![t] = "flag"]
    /\ UNCHANGED <<noact, builds, objs, dirs, ops, running, last, resolved>>
    /\ UNCHANGED <<save_flag, attrs, lock, manifest>>

\* Build.update in a thread, its last statement:
\* if not chimi.settings.noact: self.package.package_set.save_flag = True.
UpdateFlag(t) ==
    /\ pc[t] = "flag"
    /\ save_flag' = set_save_flag(St).save_flag
    /\ attrs' = set_save_flag(St).attrs
    /\ pc' = [pc EXCEPT ![t] = "updated"]
    /\ UNCHANGED <<Frame, lock, manifest>>

\* A store whose chimi.yaml was loaded or written, before any thread started.
InitRace ==
    /\ noact \in BOOLEAN
    /\ builds = [p \in Pkgs |-> <<>>]
    /\ objs = <<>>
    /\ messages = <<>>
    /\ save_flag \in BOOLEAN
    /\ attrs = {"mutex", "save_flag"} \cup PackageFields
    /\ lock = NoThread
    /\ pc = [t \in Threads |-> "idle"]
    /\ dirs = {}
    /\ manifest = [writes |-> 0, packages |-> [p \in Pkgs |-> <<>>]]
    /\ clock = 0
    /\ ops = 0
    /\ running = TRUE
    /\ last = NoLast
    /\ resolved = NoResolved

\* Builds are registered before the threads start; then every thread either
\* saves the store or updates a build, and the statements interleave.
NextRace ==
    \/ \E config \in LogConfigs("charm") :
           /\ Len(objs) < MaxRaceBuilds
           /\ \A t \in Threads : pc[t] = "idle"
           /\ AddBuild("charm", config, FALSE)
    \/ \E t \in Threads : \E b \in 1 .. Len(objs) : \E st \in {Configure, Complete} :
           UpdateAppend(t, b, st)
    \/ \E t \in Threads : UpdateFlag(t)
    \/ \E t \in Threads : SaveCall(t)
    \/ \E t \in Threads : SaveMutex(t)
    \/ \E t \in Threads : SaveAcquire(t)
    \/ \E t \in Threads : SaveTest(t)
    \/ \E t \in Threads : SaveDel(t)
    \/ \E t \in Threads : \E out \in {"ok", "fail"} : SaveWrite(t, out)
    \/ \E t \in Threads : SaveRestore(t)
    \/ \E t \in Threads : SaveFinally(t)

SpecRace == InitRace /\ [][NextRace]_vars

----------------------------------------------------------------------------
\* Purges of registries that registrations and builds have filled.
AllOk == [charm |-> "ok", configure |-> "ok", make |-> "ok"]

NextPurge ==
    \/ \E pkg \in Pkgs : \E config \in Configs(pkg) :
           ops < MaxPurgeOps /\ AddBuild(pkg, config, FALSE)
    \/ \E config \in Configs("charm") :
           ops < MaxPurgeOps /\ PackageBuild("charm", config, FALSE, FALSE, FALSE, AllOk)
    \/ \E pkg \in Pkgs : \E a \in PurgeArgs(pkg) :
           ops < MaxPurgeOps /\ PurgeBuilds(pkg, a[1], a[2], a[3])

SpecPurge == Init /\ [][NextPurge]_vars

\* Operations performed in one behaviour of SpecDirty.
MaxDirtyOps == 3

\* Registrations, replacements, purges and updates between saves.
NextDirty ==
    \/ \E pkg \in Pkgs : \E config \in DriverConfigs(pkg) : \E replace \in BOOLEAN :
           ops < MaxDirtyOps /\ AddBuild(pkg, config, replace)
    \/ \E b \in 1 .. Len(objs) : \E st \in UpdateStatuses :
           ops < MaxDirtyOps /\ Update(b, st, None)
    \/ \E pkg \in Pkgs : \E a \in PurgeArgs(pkg) :
           ops < MaxDirtyOps /\ PurgeBuilds(pkg, a[1], a[2], a[3])
    \/ \E config \in DriverConfigs("charm") :
           ops < MaxDirtyOps /\ PackageBuild("charm", config, FALSE, FALSE, FALSE, AllOk)
    \/ ops < MaxDirtyOps /\ Save("ok")

SpecDirty == Init /\ [][NextDirty]_vars

----------------------------------------------------------------------------
\* The construction of build configurations.  A behaviour starts with the
\* arguments of one construction and performs it.

RuleNames == {"icc", "smp", "xlc"}

\* The host's defaults for one option: enabled by default or not, with no
\* prerequisite or one.
HostRules ==
    {r \in {HostBuildOption(n, d, p, {}, IF n = "smp" THEN <<"-g">> ELSE <<>>) :
                n \in RuleNames,
                d \in BOOLEAN,
                p \in {<<>>} \cup {<<m>> : m \in RuleNames}} :
        ~Member(r.name, r.prerequisite_components)}

\* HostBuildConfig.components in the order of iteration: one option per name.
Hosts ==
    UNION {{h \in [1 .. k -> HostRules] :
               \A i, j \in 1 .. k : i # j => h[i].name # h[j].name} :
           k \in 0 .. MaxRules}

Tokens ==
    {Token(n, v) : n \in {"icc", "smp"}, v \in BOOLEAN} \cup {Token("xlc", TRUE)}

OptionStrings == UNION {[1 .. k -> Tokens] : k \in 0 .. MaxTokens}

\* The architecture names given to BuildConfig.create: none, base
\* architectures, build architectures and names that do not exist.
ArchitectureInputs ==
    {<<>>, <<"common">>, <<"net">>, <<"mpi">>, <<"net", "linux", "x86_64">>,
     <<"mpi", "linux", "x86_64">>, <<"bogus">>}

\* Tokens in all their forms, with names that are options of some
\* architecture, of `configure', or of nothing.
RawTokens ==
    {Token("smp", TRUE), Token("smp", FALSE), Token("bigfiles", TRUE),
     Token("foo", TRUE), Token("foo", FALSE), TokenAssigned("foo", FALSE),
     TokenAssigned("foo", TRUE)}

RawOptionStrings == UNION {[1 .. k -> RawTokens] : k \in 0 .. MaxTokens}

ExtrasChoices == {<<>>, <<"-g", "-O3", "-g">>, <<"-O3", "-g", "-g">>}

\* Component lists as a caller or a directory name gives them.
ComponentLists == UNION {[1 .. k -> {"icc", "smp"}] : k \in 0 .. MaxTokens}

\* CharmDefinition.find_existing_builds for one directory whose name holds the
\* host's architecture and `components': with a config.status file in it the
\* scan reads the undefined name config_opts_re2.
find_existing_builds(pkg, components, status_file) ==
    IF status_file THEN [config |-> NoConfig, err |-> "NameError"]
    ELSE [err |-> "none",
          config |-> BuildConfig(ArchStr(get_architecture), components, {}, {},
                                 <<>>, None, pkg)]

InitConfig ==
    /\ noact = FALSE
    /\ builds = [p \in Pkgs |-> <<>>]
    /\ objs = <<>>
    /\ messages = <<>>
    /\ save_flag = FALSE
    /\ attrs = {"mutex", "save_flag"} \cup PackageFields
    /\ lock = NoThread
    /\ pc = [t \in Threads |-> "idle"]
    /\ dirs = {}
    /\ manifest = [writes |-> 0, packages |-> [p \in Pkgs |-> <<>>]]
    /\ clock = 0
    /\ ops = 0
    /\ running = TRUE
    /\ last = NoLast
    /\ \/ \E host \in Hosts, opts \in OptionStrings, extras \in ExtrasChoices :
             resolved = [NoResolved EXCEPT !.call = "create", !.package = "charm",
                           !.host = host, !.opts = opts, !.extras = extras]
       \/ \E pkg \in Pkgs, arch \in ArchitectureInputs, uname \in Unames,
             opts \in RawOptionStrings, ignore_unknown_options \in BOOLEAN :
             resolved = [NoResolved EXCEPT !.call = "create", !.package = pkg,
                           !.arch = arch, !.uname = uname, !.opts = opts,
                           !.ignore_unknown_options = ignore_unknown_options]
       \/ \E components \in ComponentLists, extras \in ExtrasChoices :
             resolved = [NoResolved EXCEPT !.call = "construct", !.package = "charm",
                           !.components = components, !.extras = extras]
       \/ \E components \in ComponentLists, status_file \in BOOLEAN :
             resolved = [NoResolved EXCEPT !.call = "scan", !.package = "charm",
                           !.components = components, !.status_file = status_file]

\* BuildConfig.create(package, arch=arch, opts=opts, extras=extras,
\* ignore_unknown_options=ignore_unknown_options).
Create ==
    /\ resolved.call = "create" /\ ~resolved.done
    /\ \E r \in {BuildConfig_create(resolved.package, resolved.arch, resolved.uname,
                                    resolved.host, resolved.opts, resolved.extras,
                                    None, resolved.ignore_unknown_options)} :
          resolved' = [resolved EXCEPT !.done = TRUE, !.err = r.err,
                         !.config = r.config, !.option = r.option,
                         !.raw_option = r.raw_option, !.qualifier = r.qualifier]
    /\ UNCHANGED <<noact, builds, objs, messages, save_flag, attrs, lock, pc,
                   dirs, manifest, clock, ops, running, last>>

\* BuildConfig(arch, components, features, settings, extras, package=package).
Construct ==
    /\ resolved.call = "construct" /\ ~resolved.done
    /\ resolved' = [resolved EXCEPT !.done = TRUE,
                      !.config = BuildConfig(ArchStr(get_architecture),
                                             resolved.components, {}, {},
                                             resolved.extras, None, resolved.package)]
    /\ UNCHANGED <<noact, builds, objs, messages, save_flag, attrs, lock, pc,
                   dirs, manifest, clock, ops, running, last>>

\* CharmDefinition.find_existing_builds(package) on one build directory.
Scan ==
    /\ resolved.call = "scan" /\ ~resolved.done
    /\ \E r \in {find_existing_builds(resolved.package, resolved.components,
                                      resolved.status_file)} :
          resolved' = [resolved EXCEPT !.done = TRUE, !.err = r.err,
                         !.config = r.config]
    /\ UNCHANGED <<noact, builds, objs, messages, save_flag, attrs, lock, pc,
                   dirs, manifest, clock, ops, running, last>>

NextConfig == Create \/ Construct \/ Scan

SpecConfig == InitConfig /\ [][NextConfig]_vars

\* Calls of load_architectures in one behaviour of SpecCatalog.
MaxCatalogLoads == 2

\* A Charm++ tree: the architecture directories it has, and which of the
\* base architectures have a directory.
InitCatalog ==
    /\ noact = FALSE
    /\ builds = [p \in Pkgs |-> <<>>]
    /\ objs = <<>>
    /\ messages = <<>>
    /\ save_flag = FALSE
    /\ attrs = {"mutex", "save_flag"} \cup PackageFields
    /\ lock = NoThread
    /\ pc = [t \in Threads |-> "idle"]
    /\ dirs = {}
    /\ manifest = [writes |-> 0, packages |-> [p \in Pkgs |-> <<>>]]
    /\ clock = 0
    /\ ops = 0
    /\ running = TRUE
    /\ last = NoLast
    /\ \E present \in SUBSET (1 .. Len(ArchitectureDirs)), base_dirs \in SUBSET BaseDirs :
          resolved = [NoResolved EXCEPT
                        !.call = "load_architectures",
                        !.catalog.listing =
                            SelectSeq(ArchitectureDirs,
                                      LAMBDA n : \E i \in present : ArchitectureDirs[i] = n),
                        !.catalog.base_dirs = base_dirs]

\* CharmDefinition.load_architectures(package).
LoadArchitectures ==
    /\ resolved.call = "load_architectures"
    /\ ops < MaxCatalogLoads
    /\ resolved' = [resolved EXCEPT !.catalog = load_architectures(@)]
    /\ last' = [NoLast EXCEPT !.op = "load_architectures"]
    /\ ops' = ops + 1
    /\ UNCHANGED <<noact, builds, objs, messages, save_flag, attrs, lock, pc,
                   dirs, manifest, clock, running>>

NextCatalog == LoadArchitectures

SpecCatalog == InitCatalog /\ [][NextCatalog]_vars

----------------------------------------------------------------------------
\* Properties.

\* A step of the named operation.
Step(op) == last'.op = op /\ ops' = ops + 1

Preexisting(b) == messages[b][1].status = PreexistingBuild

SameDirectory(pkg, directory) ==
    {i \in 1 .. Len(builds[pkg]) : objs[builds[pkg][i]].directory = directory}

\* C1: no two build records of a package that were not discovered as
\* preexisting builds have the same directory.
C1_OneRecordPerDirectory ==
    \A pkg \in Pkgs : \A i, j \in 1 .. Len(builds[pkg]) :
        (/\ i # j
         /\ ~Preexisting(builds[pkg][i])
         /\ ~Preexisting(builds[pkg][j]))
            => objs[builds[pkg][i]].directory # objs[builds[pkg][j]].directory

\* C2: add_build without replace raises whenever a record of the package has
\* the directory of the new build, whatever the two configurations, and then
\* leaves the builds list and save_flag as they were.
C2_RefusesSameDirectory ==
    [][(/\ Step("add_build")
        /\ ~last'.replace
        /\ SameDirectory(last'.pkg, last'.directory) # {})
           => (/\ last'.err = "RuntimeError"
               /\ builds' = builds
               /\ save_flag' = save_flag)]_vars

\* C3: after add_build with replace on a package that has a record for the
\* build's directory, the package has exactly one record for that directory,
\* the new build, and the records for other directories are as before.
C3_ReplaceLeavesOneRecord ==
    [][(/\ Step("add_build")
        /\ last'.replace
        /\ SameDirectory(last'.pkg, last'.directory) # {})
           => LET pkg == last'.pkg
                  other(seq) == SelectSeq(seq,
                      LAMBDA x : objs'[x].directory # last'.directory)
              IN /\ SelectSeq(builds'[pkg],
                       LAMBDA x : objs'[x].directory = last'.directory) = <<last'.b>>
                 /\ last'.b = Len(objs')
                 /\ last'.b > Len(objs)
                 /\ other(builds'[pkg]) = other(builds[pkg])]_vars

\* C4: every Build.update call, in a dry run or not, makes the build's log one
\* message longer, and the build's status is then the status passed.
C4_UpdateAppendsOne ==
    [][Step("update")
           => LET b == last'.b
              IN /\ Len(messages'[b]) = Len(messages[b]) + 1
                 /\ messages'[b][Len(messages'[b])].status = last'.status
                 /\ SubSeq(messages'[b], 1, Len(messages[b])) = messages[b]]_vars

\* C4: a status has followed a later one of the lifecycle, in a dry run.
C4_Witness ==
    /\ noact
    /\ last.op = "update"
    /\ Len(messages[last.b]) = 3
    /\ messages[last.b][2].status = Complete
    /\ messages[last.b][3].status = Unconfigured

\* C5: the log of every build is append-only: each step leaves the log it
\* found as a prefix of the new log, and the registry operations (add_build,
\* purge_builds, save) leave every log as it is.
C5_LogAppendOnly ==
    [][/\ Len(messages') >= Len(messages)
       /\ \A b \in 1 .. Len(messages) :
             /\ Len(messages'[b]) >= Len(messages[b])
             /\ SubSeq(messages'[b], 1, Len(messages[b])) = messages[b]
             /\ last'.op \in {"add_build", "purge_builds", "save", "__del__"}
                   => messages'[b] = messages[b]]_vars

\* C5: a direct update has appended to a log that a build driver wrote.
C5_Witness ==
    /\ last.op = "update"
    /\ Len(messages[last.b]) = 4
    /\ messages[last.b][3].status = Complete
    /\ messages[last.b][3].message = "Charm++ build complete."

\* C6: a Build.update call leaves save_flag true when noact is false, and as
\* it was when noact is true.
C6_UpdateMarksUnlessNoact ==
    [][Step("update")
           => IF noact THEN save_flag' = save_flag ELSE save_flag' = TRUE]_vars

\* C6: an update was made in a dry run and the package set is not marked.
C6_Witness ==
    /\ noact
    /\ last.op = "update"
    /\ ~save_flag
    /\ Len(messages[last.b]) = 2

\* The messages a step appends to build b: their positions in the new log.
Appended(b) ==
    {i \in 1 .. Len(messages'[b]) : b > Len(messages) \/ i > Len(messages[b])}

\* The lifecycle graph of section 4.3.
LifecycleEdge(from, to, continue) ==
    \/ from = Unconfigured /\ to = Configure
    \/ from = Configure /\ to \in {Configured, ConfigureFailed}
    \/ from = Configured /\ to = Compile
    \/ from = Compile /\ to \in {Complete, CompileFailed}
    \/ to = InterruptedByUser
    \/ continue /\ from \in {ConfigureFailed, CompileFailed, InterruptedByUser}
                /\ to \in {Configure, Compile}

\* C7 as stated: every status a build driver records follows its predecessor
\* along an edge of the lifecycle graph, and Compile is recorded only in a log
\* that holds Configured.
C7_DriversFollowLifecycle ==
    [][(Step("build") \/ Step("command"))
           => \A b \in 1 .. Len(messages') : \A i \in Appended(b) :
                 /\ i = 1 => messages'[b][i].status = Unconfigured
                 /\ i > 1 => LifecycleEdge(messages'[b][i - 1].status,
                                           messages'[b][i].status, last'.continue)
                 /\ messages'[b][i].status = Compile
                       => \E j \in 1 .. (i - 1) :
                             messages'[b][j].status = Configured]_vars

\* C7 amended: every status a build driver records follows its predecessor
\* along an edge of the lifecycle graph or, for a Charm++ build, whose driver
\* has no configure step, along Unconfigured -> Compile; a ChaNGa build
\* records Compile only in a log that holds Configured.
C7_DriversFollowLifecycleOrCharmCompile ==
    [][(Step("build") \/ Step("command"))
           => \A b \in 1 .. Len(messages') : \A i \in Appended(b) :
                 /\ i = 1 => messages'[b][i].status = Unconfigured
                 /\ i > 1 =>
                       \/ LifecycleEdge(messages'[b][i - 1].status,
                                        messages'[b][i].status, last'.continue)
                       \/ /\ objs'[b].package = "charm"
                          /\ messages'[b][i - 1].status = Unconfigured
                          /\ messages'[b][i].status = Compile
                 /\ (objs'[b].package = "changa" /\ messages'[b][i].status = Compile)
                       => \E j \in 1 .. (i - 1) :
                             messages'[b][j].status = Configured]_vars

\* C7: the ChaNGa driver has taken a build from Unconfigured to Complete.
C7_Witness ==
    /\ last.op = "build"
    /\ last.pkg = "changa"
    /\ last.b # NoBuild
    /\ [i \in 1 .. Len(messages[last.b]) |-> messages[last.b][i].status]
          = <<Unconfigured, Configure, Configured, Compile, Complete>>

InManifest(b) ==
    \E pkg \in Pkgs : \E i \in 1 .. Len(manifest.packages[pkg]) :
        /\ manifest.packages[pkg][i].build.uuid = b
        /\ manifest.packages[pkg][i].messages = messages[b]

\* C8: when the build command ends after an interrupt arrived during a tool
\* invocation, the interrupted build's latest status is InterruptedByUser and
\* the manifest holds that build with that log, in a dry run too.
C8_InterruptRecordedAndSaved ==
    (last.op = "command" /\ last.intr # NoBuild)
        => /\ status(St, last.intr) = InterruptedByUser
           /\ InManifest(last.intr)

\* C9: continuing a build that is Complete, without force, raises an error
\* and appends nothing to that build, for both packages.
C9_ContinueCompleteRefused ==
    [][(/\ Step("build")
        /\ last'.continue /\ ~last'.force
        /\ find_build(St, last'.pkg, last'.config) # NoBuild
        /\ compiled(St, find_build(St, last'.pkg, last'.config)))
           => /\ last'.err # "none"
              /\ messages'[find_build(St, last'.pkg, last'.config)]
                    = messages[find_build(St, last'.pkg, last'.config)]]_vars

\* C9: the ChaNGa driver was told to continue a ChaNGa build that is Complete,
\* without force, and raised.
C9_Witness ==
    /\ last.op = "build"
    /\ last.pkg = "changa"
    /\ last.continue /\ ~last.force
    /\ last.err # "none"
    /\ find_build(St, "changa", last.config) # NoBuild
    /\ compiled(St, find_build(St, "changa", last.config))

\* C10: continuing when no recorded build matches the configuration raises
\* the no-such-build error, constructs and registers no Build, appends no
\* message and runs no tool.
C10_ContinueWithoutBuildRefused ==
    [][(/\ Step("build")
        /\ last'.continue
        /\ find_build(St, last'.pkg, last'.config) = NoBuild)
           => /\ last'.err = "ValueError: No such build to continue"
              /\ objs' = objs
              /\ builds' = builds
              /\ messages' = messages
              /\ last'.tools = {}]_vars

\* BuildConfig.create has returned a configuration without raising.
Created == resolved.call = "create" /\ resolved.done /\ resolved.err = "none"

\* The host file has a rule that enables the component by default.
EnabledByDefault(c) ==
    \E i \in 1 .. Len(resolved.host) :
        resolved.host[i].name = c /\ resolved.host[i].enable_by_default

\* The host file has a rule for component y that lists z as a prerequisite.
Requires(y, z) ==
    \E i \in 1 .. Len(resolved.host) :
        resolved.host[i].name = y /\ Member(z, resolved.host[i].prerequisite_components)

\* C11: a component that a host rule enables by default and that the option
\* string negates is not in the configuration BuildConfig.create returns.
C11_NegatedDefaultAbsent ==
    Created =>
        \A x \in RuleNames :
            (EnabledByDefault(x) /\ Member(Token(x, FALSE), resolved.opts))
                => ~Member(x, resolved.config.components)

\* C12: when the host rule of y lists z as a prerequisite, the option
\* string enables y and does not negate z, and y is legal for the
\* architecture, the configuration contains y and z.
C12_PrerequisiteAdded ==
    Created =>
        \A y, z \in RuleNames :
            (/\ Requires(y, z)
             /\ Member(Token(y, TRUE), resolved.opts)
             /\ ~Member(Token(z, FALSE), resolved.opts)
             /\ Member(y, all_options(resolved.config.architecture.name)))
                => /\ Member(y, resolved.config.components)
                   /\ Member(z, resolved.config.components)

\* C13: every component of a configuration BuildConfig.create returns is one
\* of the options the architecture accepts.
C13_ComponentsLegal ==
    Created =>
        \A i \in 1 .. Len(resolved.config.components) :
            Member(resolved.config.components[i],
                   all_options(resolved.config.architecture.name))

\* The list is in strictly ascending order: sorted, and no element twice.
StrictlySorted(seq) ==
    \A i \in 1 .. Len(seq) - 1 : ComponentRank(seq[i]) < ComponentRank(seq[i + 1])

\* C14: the components and the extras of every configuration, however it was
\* constructed, are in ascending order without duplicates.
C14_Canonical ==
    (resolved.done /\ resolved.err = "none")
        => /\ StrictlySorted(resolved.config.components)
           /\ StrictlySorted(resolved.config.extras)

\* The two lists have the same elements, each as many times.
Permutation(s, t) ==
    /\ Len(s) = Len(t)
    /\ \A x \in {s[i] : i \in 1 .. Len(s)} \cup {t[i] : i \in 1 .. Len(t)} :
          Cardinality({i \in 1 .. Len(s) : s[i] = x})
              = Cardinality({i \in 1 .. Len(t) : t[i] = x})

\* Configurations to compare a constructed configuration with.
OtherConfigs ==
    {BuildConfig(ArchStr(a), c, f, {}, e, br, p) :
        a \in {get_architecture, <<"net">>}, c \in ComponentLists,
        f \in {{}, {<<"bigfiles", TRUE>>}}, e \in ExtrasChoices,
        br \in {None, "dev"}, p \in Pkgs}

\* C15: the equality of configurations is reflexive and symmetric, holds
\* exactly when architecture, components, features, settings, extras, branch
\* and package kind are equal, and does not depend on the order in which the
\* components and extras were given to the constructor.
C15_Equality ==
    (resolved.call = "construct" /\ resolved.done) =>
        /\ ConfigEq(resolved.config, resolved.config)
        /\ \A other \in OtherConfigs :
              /\ ConfigEq(resolved.config, other) <=> ConfigEq(other, resolved.config)
              /\ ConfigEq(resolved.config, other)
                    <=> /\ resolved.config.architecture = other.architecture
                        /\ resolved.config.components = other.components
                        /\ resolved.config.features = other.features
                        /\ resolved.config.settings = other.settings
                        /\ resolved.config.extras = other.extras
                        /\ resolved.config.branch = other.branch
                        /\ DefinitionName(resolved.config.package)
                              = DefinitionName(other.package)
        /\ \A components \in ComponentLists, extras \in ExtrasChoices :
              (/\ Permutation(components, resolved.components)
               /\ Permutation(extras, resolved.extras))
                  => ConfigEq(resolved.config,
                              BuildConfig(ArchStr(get_architecture), components, {},
                                          {}, extras, None, resolved.package))

\* C15: a configuration was constructed from components and extras that are
\* given in another order to a second constructor call, and the two are equal.
C15_Witness ==
    /\ resolved.call = "construct" /\ resolved.done
    /\ resolved.components = <<"smp", "icc">>
    /\ resolved.extras = <<"-g", "-O3", "-g">>
    /\ ConfigEq(resolved.config,
                BuildConfig(ArchStr(get_architecture), <<"icc", "smp">>, {}, {},
                            <<"-O3", "-g", "-g">>, None, resolved.package))

\* The builds of the package that the arguments name: those whose
\* configuration equals config, whose name is in names or whose uuid is in
\* uuids.
Named(pkg, args) ==
    SelectSeq(builds[pkg],
              LAMBDA b : \/ \E c \in args[1] : ConfigEq(objs[b].config, c)
                         \/ objs[b].name \in args[2]
                         \/ objs[b].uuid \in args[3])

\* The builds that purge_builds selects: all of them when it is given neither
\* a configuration nor names nor uuids.
Selected(pkg, args) ==
    IF args = <<{}, {}, {}>> THEN builds[pkg] ELSE Named(pkg, args)

\* The list without the builds of sel, in the same order.
Without(seq, sel) == SelectSeq(seq, LAMBDA b : ~Member(b, sel))

\* A purge_builds call outside a dry run has returned.
PurgeReturned == Step("purge_builds") /\ ~noact /\ last'.err = "none"

C17_DryRunPurgesNothing ==
    [][(Step("purge_builds") /\ noact) => (dirs' = dirs /\ builds' = builds)]_vars

\* C17: a purge in a dry run selected a build, which is still registered.
C17_Witness ==
    /\ last.op = "purge_builds" /\ noact
    /\ last.ret >= 1 /\ last.callbacks >= 1
    /\ Len(builds[last.pkg]) >= 1

\* Nothing was changed since the store was constructed, loaded or saved: no
\* operation was performed yet, or the last one was a save that returned.
NoChangeSince == ops = 0 \/ (last.op = "save" /\ last.err = "none")

\* The registry in memory.
Registry == <<builds, objs, messages>>

\* C18: a save() made when nothing has changed since the store was loaded or
\* saved writes nothing and leaves the dirty flag and the registry as they
\* were, and a save() that writes leaves the dirty flag false.
C18_SaveOnlyWhenChanged ==
    [][Step("save") =>
          /\ NoChangeSince =>
                /\ manifest' = manifest
                /\ attrs' = attrs /\ save_flag' = save_flag
                /\ Registry' = Registry
          /\ manifest'.writes > manifest.writes =>
                ("save_flag" \in attrs' /\ ~save_flag')]_vars

\* An explicit save() would write chimi.yaml.
SaveWrites == save(St, "ok").st.manifest.writes > manifest.writes

\* The destructor would write chimi.yaml.
DelWrites == del(St).manifest.writes > manifest.writes

\* C20: when the write fails inside save() the error reaches the caller, the
\* registry in memory is unchanged, and the store stays dirty: a later save()
\* and the destructor both write.
C20_FailedSaveStaysDirty ==
    [][(Step("save") /\ manifest' = manifest
        /\ ("save_flag" \notin attrs \/ save_flag) /\ ~noact)
           => /\ last'.err # "none"
              /\ Registry' = Registry
              /\ SaveWrites'
              /\ DelWrites']_vars

\* The threads that are between the deletion of the volatile attributes and
\* their restoration.
Frozen == {t \in Threads : pc[t] \in {"write", "restore", "finally, IOError"}}

\* C19: concurrent save() calls are serialized: a save that starts while
\* another is in progress waits for it instead of failing, and no two saves
\* are at once between freezing the volatile attributes and restoring them.
C19_SavesSerialized ==
    /\ Cardinality(Frozen) <= 1
    /\ \A t \in Threads : pc[t] # "AttributeError"

\* The elements of a list.
Elements(seq) == {seq[i] : i \in 1 .. Len(seq)}

\* C30: the configuration BuildConfig.create returns is closed under the host
\* rules: every component of it that has a host rule, is legal for the
\* architecture and was not negated has all prerequisites of the rule among
\* the components, and the rule's settings and extras in the configuration.
C30_ClosedUnderHostRules ==
    Created =>
        \A i \in 1 .. Len(resolved.host) :
            (/\ Member(resolved.host[i].name, resolved.config.components)
             /\ Member(resolved.host[i].name,
                       all_options(resolved.config.architecture.name))
             /\ ~Member(Token(resolved.host[i].name, FALSE), resolved.opts))
                => /\ Elements(resolved.host[i].prerequisite_components)
                         \subseteq Elements(resolved.config.components)
                   /\ resolved.host[i].apply_settings \subseteq resolved.config.settings
                   /\ Elements(resolved.host[i].apply_extras)
                         \subseteq Elements(resolved.config.extras)

\* The two configurations have the same architecture, components, features,
\* settings, extras and branch and belong to packages of the same kind.
StructurallyEqual(a, b) ==
    /\ a.architecture = b.architecture
    /\ a.components = b.components
    /\ a.features = b.features
    /\ a.settings = b.settings
    /\ a.extras = b.extras
    /\ a.branch = b.branch
    /\ DefinitionName(a.package) = DefinitionName(b.package)

\* The positions in the package's list of the builds with that configuration.
Matching(pkg, config) ==
    {i \in 1 .. Len(builds[pkg]) : StructurallyEqual(objs[builds[pkg][i]].config, config)}

\* C25: find_builds(config) returns exactly the builds of the package whose
\* configuration is structurally equal to config, in the order of the list,
\* find_build(config) returns the first of them or None, and neither changes
\* the registry.
C25_FindBuildsExact ==
    [][Step("find_builds") =>
          /\ Elements(last'.matches)
                = {builds[last'.pkg][i] : i \in Matching(last'.pkg, last'.config)}
          /\ Len(last'.matches) = Cardinality(Matching(last'.pkg, last'.config))
          /\ \A i, j \in 1 .. Len(last'.matches) :
                i < j => Index(builds[last'.pkg], last'.matches[i])
                            < Index(builds[last'.pkg], last'.matches[j])
          /\ last'.b = IF Matching(last'.pkg, last'.config) = {} THEN NoBuild
                       ELSE builds[last'.pkg][CHOOSE i \in Matching(last'.pkg, last'.config) :
                                \A j \in Matching(last'.pkg, last'.config) : i <= j]
          /\ Registry' = Registry
          /\ save_flag' = save_flag /\ manifest' = manifest /\ dirs' = dirs]_vars

\* C25: a lookup found the second of two builds of a package and not the
\* first.
C25_Witness ==
    /\ last.op = "find_builds"
    /\ Len(builds[last.pkg]) = 2
    /\ last.matches = <<builds[last.pkg][2]>>
    /\ last.b = builds[last.pkg][2]

\* The name BuildConfig.create looks up in the catalog: the name given, the
\* completion of a base architecture name, or the host's default.
ResolvedName ==
    IF resolved.arch = <<>> THEN get_architecture_on("net", resolved.uname)
    ELSE IF resolved.arch \in {<<"common">>, <<"net">>, <<"mpi">>}
    THEN get_architecture_on(resolved.arch[1], resolved.uname)
    ELSE resolved.arch

CreateReturned == resolved.call = "create" /\ resolved.done

\* C26: BuildConfig.create raises InvalidArchitectureError exactly when the
\* resolved architecture name is not in the catalog; the error's qualifier is
\* 'Auto-selected' iff no architecture was given, 'Auto-completed' iff a base
\* architecture was given, and absent otherwise; a configuration that is
\* returned has an architecture of the catalog that is not a base one.
C26_ArchitectureResolved ==
    CreateReturned =>
        /\ resolved.err = "InvalidArchitectureError"
              <=> ResolvedName \notin ArchitectureNames
        /\ resolved.err = "InvalidArchitectureError" =>
              /\ resolved.qualifier = "Auto-selected" <=> resolved.arch = <<>>
              /\ resolved.qualifier = "Auto-completed"
                    <=> resolved.arch \in {<<"common">>, <<"net">>, <<"mpi">>}
              /\ resolved.qualifier = None
                    <=> resolved.arch \notin {<<>>, <<"common">>, <<"net">>, <<"mpi">>}
        /\ resolved.err = "none" =>
              /\ resolved.config.architecture.name \in ArchitectureNames
              /\ ~Architectures(resolved.config.architecture.name).is_base
              /\ resolved.config.architecture.name = ResolvedName

\* A base architecture name was completed to a build architecture of the
\* catalog.
C26_Witness ==
    /\ CreateReturned /\ resolved.arch = <<"mpi">> /\ resolved.err = "none"
    /\ resolved.config.architecture.name = <<"mpi", "linux", "x86_64">>

\* The name of a token: the text before `=', without a leading `-'.
TokenName(opt) == IF opt[1] = "-" THEN opt[2] ELSE opt[1]

\* The positions of the tokens whose name is neither an option of the
\* architecture nor a configure option of the package.
UnknownTokens ==
    {i \in DOMAIN resolved.opts :
        /\ ~Member(TokenName(resolved.opts[i]), all_options(ResolvedName))
        /\ TokenName(resolved.opts[i]) \notin get_configure_options(resolved.package)}

FirstUnknown == CHOOSE i \in UnknownTokens : \A j \in UnknownTokens : i <= j

\* C27: with ignore_unknown_options false BuildConfig.create raises
\* InvalidBuildOptionError for the first token whose name is unknown, with the
\* name and, only when it differs from the name, the raw token; with
\* ignore_unknown_options true it returns a configuration that contains none
\* of the unknown names.
C27_UnknownOptionRejected ==
    (CreateReturned /\ ResolvedName \in ArchitectureNames /\ UnknownTokens # {}) =>
        IF resolved.ignore_unknown_options
        THEN /\ resolved.err = "none"
             /\ \A i \in UnknownTokens :
                   /\ ~Member(TokenName(resolved.opts[i]), resolved.config.components)
                   /\ \A f \in resolved.config.features :
                         f[1] # TokenName(resolved.opts[i])
        ELSE /\ resolved.err = "InvalidBuildOptionError"
             /\ resolved.option = TokenName(resolved.opts[FirstUnknown])
             /\ resolved.raw_option =
                   IF resolved.opts[FirstUnknown] # <<resolved.option>>
                   THEN resolved.opts[FirstUnknown] ELSE <<>>

\* The builds of a package as records: the fields of each Build and its log.
Records(p) ==
    [i \in DOMAIN builds[p] |->
        [messages |-> messages[builds[p][i]], build |-> objs[builds[p][i]]]]

\* The same record but for the branch of its configuration.
SameRecord(a, b) ==
    /\ a.messages = b.messages
    /\ a.build.uuid = b.build.uuid /\ a.build.name = b.build.name
    /\ a.build.directory = b.build.directory
    /\ [a.build.config EXCEPT !.branch = None] = [b.build.config EXCEPT !.branch = None]

\* PackageSet.load has just run in this process.
Loaded == last.op = "load"

Unshared(recs, j) ==
    \A k \in DOMAIN recs : k # j => recs[k].build.directory # recs[j].build.directory

\* C21: after Package.__setstate__ the builds are persisted records whose
\* directory exists, each once; no surviving record has a missing directory,
\* every existing directory of a persisted record keeps a record, and no
\* record with an existing, unshared directory is dropped.
C21_LoadKeepsExisting ==
    Loaded =>
        \A p \in Pkgs :
            /\ \A i \in DOMAIN Records(p) :
                  /\ Records(p)[i].build.directory \in dirs
                  /\ \E j \in DOMAIN last.persisted[p] :
                        SameRecord(Records(p)[i], last.persisted[p][j])
                  /\ \A k \in DOMAIN Records(p) :
                        Records(p)[k].build.uuid = Records(p)[i].build.uuid => k = i
            /\ \A j \in DOMAIN last.persisted[p] :
                  last.persisted[p][j].build.directory \in dirs =>
                      /\ \E i \in DOMAIN Records(p) :
                            Records(p)[i].build.directory
                                = last.persisted[p][j].build.directory
                      /\ Unshared(last.persisted[p], j) =>
                            \E i \in DOMAIN Records(p) :
                                SameRecord(Records(p)[i], last.persisted[p][j])

\* A load dropped a record whose directory is missing and kept another one.
C21_Witness ==
    /\ Loaded /\ Len(builds.charm) = 1 /\ Len(last.persisted.charm) = 2
    /\ \E j \in DOMAIN last.persisted.charm :
          /\ last.persisted.charm[j].build.directory \notin dirs
          /\ Unshared(last.persisted.charm, j)

LastTime(rec) == rec.messages[Len(rec.messages)].time

\* The builds a load left for the directory of the persisted record j.
Survivors(p, j) ==
    {i \in DOMAIN Records(p) :
        Records(p)[i].build.directory = last.persisted[p][j].build.directory}

\* The survivor of a directory is one of its persisted records, and none of
\* them was updated later.
MostRecent(p, j) ==
    \A i \in Survivors(p, j) :
        /\ \E k \in DOMAIN last.persisted[p] :
              /\ SameRecord(Records(p)[i], last.persisted[p][k])
              /\ last.persisted[p][k].build.directory
                    = last.persisted[p][j].build.directory
        /\ \A k \in DOMAIN last.persisted[p] :
              last.persisted[p][k].build.directory
                  = last.persisted[p][j].build.directory
              => LastTime(last.persisted[p][k]) <= LastTime(Records(p)[i])

NoSharedDirectory(p) ==
    \A i, k \in DOMAIN Records(p) :
        Records(p)[i].build.directory = Records(p)[k].build.directory => i = k

\* C22 as stated: of several persisted records with the same directory
\* exactly one survives a load, the one whose last message is the latest, and
\* after a load no two builds of a package share a directory.
C22_OneSurvivorPerDirectory ==
    Loaded =>
        \A p \in Pkgs :
            /\ NoSharedDirectory(p)
            /\ \A j \in DOMAIN last.persisted[p] :
                  ~Unshared(last.persisted[p], j) =>
                      Cardinality(Survivors(p, j)) = 1 /\ MostRecent(p, j)

\* C22 amended: of several persisted records with the same directory, when
\* that directory exists, exactly one survives a load, the one whose last
\* message is the latest; when it does not exist none survives; after a load
\* no two builds of a package share a directory.
C22_OneSurvivorPerExistingDirectory ==
    Loaded =>
        \A p \in Pkgs :
            /\ NoSharedDirectory(p)
            /\ \A j \in DOMAIN last.persisted[p] :
                  ~Unshared(last.persisted[p], j) =>
                      IF last.persisted[p][j].build.directory \in dirs
                      THEN Cardinality(Survivors(p, j)) = 1 /\ MostRecent(p, j)
                      ELSE Survivors(p, j) = {}

\* Two persisted records had the same existing directory, the earlier of the
\* list updated last, and a load kept that one.
C22_Witness ==
    /\ Loaded /\ Len(last.persisted.charm) = 2 /\ Len(builds.charm) = 1
    /\ ~Unshared(last.persisted.charm, 1)
    /\ LastTime(last.persisted.charm[2]) < LastTime(last.persisted.charm[1])
    /\ SameRecord(Records("charm")[1], last.persisted.charm[1])

\* A step that is PackageSet.load returning to its caller.
LoadReturns == ~running /\ last'.op = "load" /\ last'.err = "none"

\* The builds load leaves differ from the records it read.
Reconciled == \E p \in Pkgs : Records(p)' # manifest.packages[p]

\* C23: whenever the reconciliation of PackageSet.load changes the builds (a
\* record dropped for its missing directory, duplicates discarded, a branch
\* derived again), load has written the reconciled builds to chimi.yaml when
\* it returns, also under noact, and noact has the value it had before.
C23_ReconciliationSaved ==
    [][(LoadReturns /\ Reconciled) =>
          /\ manifest'.writes = manifest.writes + 1
          /\ \A p \in Pkgs : manifest'.packages[p] = Records(p)'
          /\ noact' = noact]_vars

\* Every build directory of the records exists, no two records of a package
\* share one, and every branch is a local branch.
Consistent(packages) ==
    \A p \in Pkgs : \A j \in DOMAIN packages[p] :
        /\ packages[p][j].build.directory \in dirs
        /\ Unshared(packages[p], j)
        /\ packages[p][j].build.config.branch \in Branches(p)

\* C29: what a save writes is the builds of every package as they are then,
\* and a load of records whose directories exist and are distinct and whose
\* branches are known yields, for every package, builds equal to the saved
\* ones in uuid, name, directory, configuration and log, in the same order.
C29_SaveLoadRoundTrip ==
    [][/\ manifest'.writes # manifest.writes =>
             \A p \in Pkgs : manifest'.packages[p] = Records(p)'
       /\ (~running /\ last'.op = "load" /\ Consistent(manifest.packages)) =>
             \A p \in Pkgs : Records(p)' = manifest.packages[p]]_vars

\* A process registered a build next to a loaded one and saved; the next
\* process loaded both as they were saved.
C29_Witness ==
    /\ Loaded /\ manifest.writes > 0 /\ ~last.saved
    /\ Len(builds.charm) = 2 /\ Consistent(last.persisted)
    /\ \E i \in DOMAIN Records("charm") : Records("charm")[i].build.uuid < 100
    /\ \A p \in Pkgs : Records(p) = last.persisted[p]

\* A step writes nothing to chimi.yaml, removes no directory and runs no
\* build tool through check_call.
NothingChanged ==
    /\ manifest' = manifest
    /\ dirs \subseteq dirs'
    /\ last'.tools = {}

ChaNGaStarted ==
    /\ Step("build") /\ last'.pkg = "changa"
    /\ \E b \in 1 .. Len(objs') :
          /\ objs'[b].package = "changa"
          /\ \E i \in Appended(b) : messages'[b][i].status \in {Configure, Compile}

\* C28: ChaNGaDefinition.build appends Configure or Compile to a ChaNGa build
\* only when a Charm++ build matching the derived Charm++ configuration is
\* registered and its status is Complete.
C28_ChaNGaNeedsCompleteCharm ==
    [][ChaNGaStarted =>
          /\ find_build(St', "charm", charm_config(last'.config)) # NoBuild
          /\ status(St', find_build(St', "charm", charm_config(last'.config)))
                = Complete]_vars

\* C40: a Build.update call changes the log of the updated build and the
\* package set's save_flag only: every build object (uuid, name, directory,
\* configuration), every package's builds list, the log of every other build,
\* the build directories and the manifest are as they were.
C40_UpdateFrame ==
    [][Step("update")
           => /\ objs' = objs
              /\ builds' = builds
              /\ Len(messages') = Len(messages)
              /\ \A b \in 1 .. Len(messages) :
                    b # last'.b => messages'[b] = messages[b]
              /\ dirs' = dirs
              /\ manifest' = manifest
              /\ noact' = noact]_vars

\* C40: the second of two registered builds was updated, the first was not.
C40_Witness ==
    /\ last.op = "update"
    /\ Len(objs) = 2
    /\ last.b = 2
    /\ Len(messages[2]) = 2
    /\ Len(messages[1]) = 1
    /\ \E pkg \in Pkgs : Len(builds[pkg]) >= 1

\* C32: Build.configured is monotone, a build that is configured stays so
\* after every step; Build.compiled holds exactly when the status of the last
\* message is Complete; and a build whose log is the single message
\* PreexistingBuild is neither configured nor compiled.
C32_ConfiguredMonotoneCompiledLast ==
    [][/\ \A b \in 1 .. Len(messages) : configured(St, b) => configured(St, b)'
       /\ \A b \in 1 .. Len(messages') :
             LET log == messages'[b]
             IN /\ compiled(St, b)' <=> log[Len(log)].status = Complete
                /\ (Len(log) = 1 /\ log[1].status = PreexistingBuild)
                      => ~configured(St, b)' /\ ~compiled(St, b)']_vars

\* C32: a build discovered on disk was configured, completed and then failed:
\* it is still configured and no longer compiled.
C32_Witness ==
    /\ last.op = "update"
    /\ last.b # NoBuild
    /\ [i \in 1 .. Len(messages[last.b]) |-> messages[last.b][i].status]
          = <<PreexistingBuild, Configured, Complete, CompileFailed>>
    /\ configured(St, last.b)
    /\ ~compiled(St, last.b)

\* The tools a build of the package runs.
ToolsOf(pkg) == IF pkg = "charm" THEN {"charm"} ELSE {"configure", "make"}

C36_UnsavedChangesAreDirty ==
    (~noact /\ Dump(St) # manifest.packages)
        => ("save_flag" \notin attrs \/ save_flag)

\* C31: every PackageSet.save() call, whether it writes, skips the write or
\* fails while writing, leaves the mutex and every package's _repository and
\* _branches in place, and no operation ends with AttributeError for a
\* missing field.
C31_SaveKeepsVolatileFields ==
    [][/\ Step("save")
             => /\ ("mutex" \in attrs') = ("mutex" \in attrs)
                /\ attrs' \cap PackageFields = attrs \cap PackageFields
       /\ last'.err # "AttributeError"]_vars

\* The names of the objects at the positions ids.
NamesOf(c, ids) == [k \in DOMAIN ids |-> c.objects[ids[k]].name]

\* C33: load_architectures on a table that is already populated leaves the
\* set of names as it is and, for the architecture of every name, the name of
\* its parent, its is_base flag and the names in its children list, and no
\* children list names an architecture twice.
C33_LoadArchitecturesIdempotent ==
    [][(Step("load_architectures") /\ ops >= 1)
          => LET c == resolved.catalog
                 d == resolved'.catalog
             IN \A n \in CatalogNames :
                   /\ (d.Architectures[n] = 0) = (c.Architectures[n] = 0)
                   /\ c.Architectures[n] # 0 =>
                         LET a == c.objects[c.Architectures[n]]
                             b == d.objects[d.Architectures[n]]
                         IN /\ (a.parent = 0) = (b.parent = 0)
                            /\ a.parent # 0 =>
                                  c.objects[a.parent].name = d.objects[b.parent].name
                            /\ a.is_base = b.is_base
                            /\ NamesOf(c, a.children) = NamesOf(d, b.children)
                            /\ \A i, j \in DOMAIN b.children :
                                  i # j => d.objects[b.children[i]].name
                                              # d.objects[b.children[j]].name]_vars

\* C37: a component that the option string negates is not in the
\* configuration BuildConfig.create returns, also when the host rule of a
\* component that the option string enables, or that the host enables by
\* default, lists it as a prerequisite.
C37_NegatedPrerequisiteAbsent ==
    Created =>
        \A x, y \in RuleNames :
            (/\ Member(Token(x, FALSE), resolved.opts)
             /\ Requires(y, x)
             /\ (Member(Token(y, TRUE), resolved.opts) \/ EnabledByDefault(y)))
                => ~Member(x, resolved.config.components)

\* C38: the configuration BuildConfig.create returns does not depend on the
\* order in which the host's component rules are iterated: with the rules in
\* any other order the call returns the same components, settings and extras.
C38_RuleOrderIrrelevant ==
    Created =>
        \A host \in [1 .. Len(resolved.host) -> Elements(resolved.host)] :
            Permutation(host, resolved.host) =>
                LET other == BuildConfig_create(resolved.package, resolved.arch,
                                                resolved.uname, host, resolved.opts,
                                                resolved.extras, None,
                                                resolved.ignore_unknown_options)
                IN /\ other.err = "none"
                   /\ other.config.components = resolved.config.components
                   /\ other.config.settings = resolved.config.settings
                   /\ other.config.extras = resolved.config.extras

\* C39: a Build.update that runs in another thread while save() is in
\* progress is not lost: once the save has returned and the update has
\* finished, chimi.yaml holds every build's log as it is in memory, or the
\* store is still marked for saving.
C39_ConcurrentUpdateNotLost ==
    (/\ \E t \in Threads : pc[t] = "returned"
     /\ \E t \in Threads : pc[t] = "updated"
     /\ \A t \in Threads : pc[t] \in {"returned", "updated"})
        => \/ manifest.packages = Dump(St)
           \/ "save_flag" \notin attrs
           \/ save_flag

====
